---- MODULE Spec2Model ----
(***************************************************************************)
(* IterableWeakMap (packages/weak_map/mod.ts) and IterableWeakSet          *)
(* (packages/weak_set/mod.ts): the weak-reference bookkeeping of both      *)
(* classes over the host's WeakRef, WeakMap, Set and FinalizationRegistry. *)
(*                                                                         *)
(* Source names are kept: `map` is the private #map (a WeakMap, the        *)
(* "index" of the specification), `set` is the private #set (a Set of      *)
(* WeakRefs, the "registry" of the specification) and `registry` is the    *)
(* class's static #registry (the FinalizationRegistry, the "reclaim        *)
(* registrations" of the specification).                                   *)
(***************************************************************************)
EXTENDS Integers, Sequences, FiniteSets, TLC

\* ------------------------------------------------------------------------
\* Bounds of the model
\* ------------------------------------------------------------------------

\* number of distinct objects the application creates and may use as keys
NumObjects == 2

\* number of distinct payload values the application passes to set()
NumValues == 2

\* most registrations beyond the first of each cell that the model lets
\* IterableWeakSet.add pile up, in all, in the FinalizationRegistry
MaxExtra == 1

\* number of distinct items the application passes to groupBy
NumItems == 2

\* most items that the application passes to one call of groupBy
MaxItems == 3

\* ------------------------------------------------------------------------
\* Values of the host language
\* ------------------------------------------------------------------------

ObjNames == <<"o1", "o2", "o3", "o4">>

ValNames == <<"v1", "v2", "v3", "v4">>

\* the objects of the application: the only values that can be held weakly
Objects == {ObjNames[n] : n \in 1..NumObjects}

\* the payloads of the map
Values == {ValNames[n] : n \in 1..NumValues}

\* the value `undefined`
Undefined == "undefined"

\* values that are no WeakKey: null, undefined, and a string, which stands for
\* a number and a boolean as well (the code hands a key to new WeakRef, to
\* WeakMap.get and to === only, and these treat the three alike)
Primitives == {"string", "null", Undefined}

\* every argument the application may pass where a key is expected
Keys == Objects \cup Primitives

\* the two containers of one class that the application may construct
Insts == {1, 2}

VARIABLES
  kind,      \* the class the application uses: "map" or "set"
  insts,     \* the instances of that class the application constructed
  objState,  \* per object: "held" by the application, "dropped", "reclaimed"
  map,       \* per instance: #map, the WeakMap from key to payload
  set,       \* per instance: #set, the Set of WeakRefs in insertion order
  registry,  \* the class's static #registry: its cells, with multiplicity
  walk,      \* the walk in progress: an iterator, or the loop of forEach
  last,      \* the last call that writes or walks, and what it returned
  hist       \* the application's record of the walk in progress, if it keeps one

vars == <<kind, insts, objState, map, set, registry, walk, last, hist>>

\* ------------------------------------------------------------------------
\* Host primitives: WeakRef, WeakMap, Set, FinalizationRegistry
\* ------------------------------------------------------------------------

\* CanBeHeldWeakly of ECMAScript: objects (and non-registered symbols)
CanBeHeldWeakly(x) == x \in Objects

\* the `k` of a missing payload: `const { k } = this.#map.get(key) ?? {}`
NoRef == [id |-> 0, target |-> Undefined]

\* the payload destructured from `?? {}`
NoPayload == [k |-> NoRef, v |-> Undefined]

\* WeakRef.prototype.deref: the target while it is not reclaimed
Deref(ref) ==
  IF ref = NoRef THEN Undefined
  ELSE IF objState[ref.target] = "reclaimed" THEN Undefined
  ELSE ref.target

Range(s) == {s[j] : j \in 1..Len(s)}

\* the WeakRefs that some structure still references
UsedRefs ==
  UNION {Range(set[i]) : i \in Insts}
    \cup UNION {{map[i][o].k : o \in DOMAIN map[i]} : i \in Insts}
    \cup {c.ref : c \in DOMAIN registry}

\* `new WeakRef(key)`: a WeakRef to key whose identity differs from that of
\* every WeakRef a structure still references
NewWeakRef(key) ==
  LET used == {r.id : r \in {u \in UsedRefs : u.target = key}}
  IN  [id |-> CHOOSE n \in 1..(Cardinality(used) + 1) : n \notin used,
       target |-> key]

\* WeakMap.prototype.get, followed by `?? {}`
WeakMapGet(m, key) == IF key \in DOMAIN m THEN m[key] ELSE NoPayload

\* WeakMap.prototype.set, for a key that can be held weakly
WeakMapSet(m, key, payload) ==
  [o \in (DOMAIN m) \cup {key} |-> IF o = key THEN payload ELSE m[o]]

\* WeakMap.prototype.delete
WeakMapDelete(m, key) == [o \in (DOMAIN m) \ {key} |-> m[o]]

\* Set.prototype.add: appends unless present (insertion order is kept)
JsSetAdd(s, x) == IF x \in Range(s) THEN s ELSE Append(s, x)

\* Set.prototype.delete
JsSetDelete(s, x) == SelectSeq(s, LAMBDA y : y # x)

\* a live Set iterator that has passed `pos` elements of s, once s became s2
\* by deletions: the deleted elements it had passed no longer count
PosAfter(s, s2, pos) == Cardinality({j \in 1..pos : s[j] \in Range(s2)})

\* FinalizationRegistry.prototype.register(target, heldValue, token)
RegistryRegister(reg, cell) ==
  IF cell \in DOMAIN reg THEN [reg EXCEPT ![cell] = @ + 1]
  ELSE [c \in (DOMAIN reg) \cup {cell} |-> IF c = cell THEN 1 ELSE reg[c]]

\* FinalizationRegistry.prototype.unregister(token): every cell of the token
RegistryUnregister(reg, token) ==
  [c \in {d \in DOMAIN reg : d.token # token} |-> reg[c]]

\* the host drops one registration of `cell` once it has called the finalizer
DropCell(reg, cell) ==
  IF cell \notin DOMAIN reg THEN reg
  ELSE IF reg[cell] > 1 THEN [reg EXCEPT ![cell] = @ - 1]
  ELSE [c \in (DOMAIN reg) \ {cell} |-> reg[c]]

\* the number of registrations of reg beyond the first of each cell
RECURSIVE ExtraOf(_, _)
ExtraOf(reg, cells) ==
  IF cells = {} THEN 0
  ELSE LET c == CHOOSE d \in cells : TRUE
       IN  (reg[c] - 1) + ExtraOf(reg, cells \ {c})

Extra(reg) == ExtraOf(reg, DOMAIN reg)

\* a cell: register(key, { ref, map, set }, key); `inst` stands for the
\* instance whose #map and #set the held value references
Cell(key, ref, i) == [target |-> key, ref |-> ref, inst |-> i, token |-> key]

\* a reference that a structure keeps to an object, and how it keeps it
WeakTo(o) == [to |-> o, how |-> "weak"]

StrongTo(o) == [to |-> o, how |-> "strong"]

\* a faulty registration: its held value carries the key next to the WeakRef
CellRefs_HeldKey(cell) ==
  {WeakTo(cell.target), WeakTo(cell.token), WeakTo(cell.ref.target),
   StrongTo(cell.target)}

\* the references of a registry cell: the FinalizationRegistry keeps target
\* and token weakly and the held value strongly, and the held value
\* { ref, map, set } references a WeakRef, the WeakMap and the Set
CellRefs(cell) ==
  {WeakTo(cell.target), WeakTo(cell.token), WeakTo(cell.ref.target)}

\* the references of an entry of #map: the WeakMap keeps the key weakly, and
\* the payload { k, v } (the set's { ref }) references a WeakRef
PayloadRefs(key, payload) == {WeakTo(key), WeakTo(payload.k.target)}

\* the references of #set: a Set of WeakRefs
SetRefs(s) == {WeakTo(s[j].target) : j \in 1..Len(s)}

\* every reference that #map, #set and the registry keep to an object
Refs ==
  UNION {CellRefs(c) : c \in DOMAIN registry}
    \cup UNION {UNION {PayloadRefs(o, map[i][o]) : o \in DOMAIN map[i]} :
                  i \in Insts}
    \cup UNION {SetRefs(set[i]) : i \in Insts}

\* the objects that the containers keep alive
Retained == {r.to : r \in {x \in Refs : x.how = "strong"}}

\* ------------------------------------------------------------------------
\* Observers
\* ------------------------------------------------------------------------

\* the call of set, add, delete, clear, the set's size, entries, values or
\* next, or the host's call of a finalizer, that has just returned: the instance; the method; what it returned or
\* the error it threw; the object passed as key to set and add (undefined when
\* the argument was no object) or yielded by next; the value passed to set or
\* yielded by next; the number returned by size.  get, has and the map's size
\* write nothing: what they return is a function of the state
Result(i, op, ret, key, value, n) ==
  [inst |-> i, op |-> op, ret |-> ret,
   key |-> IF key \in Objects THEN key ELSE Undefined,
   value |-> value, n |-> n]

\* no call has just returned: the application did something else, or the host
\* ran
NoCall == Result(1, "none", Undefined, Undefined, Undefined, 0)

\* a walk of instance i that has passed no element of #set: `by` is "next"
\* for an iterator that the application drives and "forEach" for the loop of
\* forEach, which keeps the thisArg of the call
NewWalk(i, by, thisArg) ==
  [active |-> TRUE, inst |-> i, pos |-> 0, by |-> by, thisArg |-> thisArg]

\* no walk is in progress
Idle ==
  [active |-> FALSE, inst |-> 1, pos |-> 0, by |-> "next",
   thisArg |-> Undefined]

\* forEach is running: its callback may call the container, and the host
\* runs no finalizer before the synchronous call returns
InForEach == walk.active /\ walk.by = "forEach"

\* what forEach may be passed as callback: nothing, a string, a function
Callbacks == {Undefined, "string", "function"}

\* the object that the application passes to forEach as thisArg
ThisArgs == {"thisArg"}

\* one call of the callback, as the callback sees it: its receiver and its
\* arguments
CallbackCall(i, thisArg, args) ==
  [inst |-> i, op |-> "callback", ret |-> Undefined, key |-> args[2],
   value |-> args[1], n |-> 0, this |-> thisArg, args |-> args]

\* the iterator of instance i after #set of i changed from s to s2
WalkFix(i, s, s2) ==
  IF walk.active /\ walk.inst = i
    THEN [walk EXCEPT !.pos = PosAfter(s, s2, walk.pos)]
    ELSE walk

\* the application keeps no record of its walks
NoHist == [on |-> FALSE, clean |-> FALSE, start |-> {}, seen |-> <<>>]

\* the application keeps a record, and has none to keep: no walk was started,
\* or it called set, add, delete, clear or forEach since the walk started
Dirty == [on |-> TRUE, clean |-> FALSE, start |-> {}, seen |-> <<>>]

\* the record after the application called set, add, delete, clear or forEach
HistMutated == hist' = IF hist.on THEN Dirty ELSE hist

\* the record after a step of the host or a drop: kept for the walk in
\* progress, discarded after its end
HistEnv == hist' = IF hist.on /\ ~walk.active THEN Dirty ELSE hist

\* the record when a walk of instance i starts: `start` is the set of keys
\* that are live and in the container
HistStart(i) ==
  hist' = IF hist.on
            THEN [on |-> TRUE, clean |-> TRUE,
                  start |-> {o \in DOMAIN map[i] :
                               Deref(map[i][o].k) = o
                                 /\ map[i][o].k \in Range(set[i])},
                  seen |-> <<>>]
            ELSE hist

\* the record after the walk yielded key
HistYield(key) ==
  hist' = IF hist.on /\ hist.clean THEN [hist EXCEPT !.seen = Append(@, key)]
          ELSE hist

\* ------------------------------------------------------------------------
\* The application and the host's garbage collector
\* ------------------------------------------------------------------------

\* an argument the application can pass: a primitive, or an object it holds
CanPass(key) == IF key \in Primitives THEN TRUE ELSE objState[key] = "held"

\* the application drops its last strong reference to object o
Drop(o) ==
  /\ objState[o] = "held"
  /\ objState' = [objState EXCEPT ![o] = "dropped"]
  /\ last' = NoCall
  /\ HistEnv
  /\ UNCHANGED <<kind, insts, map, set, registry, walk>>

\* the host reclaims object o, which neither the application nor a container
\* keeps alive: its WeakRefs are emptied (Deref) and, as the WeakMaps hold
\* their keys weakly, its entry leaves every #map
Reclaim(o) ==
  /\ objState[o] = "dropped" /\ o \notin Retained
  /\ objState' = [objState EXCEPT ![o] = "reclaimed"]
  /\ map' = [i \in Insts |-> WeakMapDelete(map[i], o)]
  /\ last' = NoCall
  /\ HistEnv
  /\ UNCHANGED <<kind, insts, set, registry, walk>>

\* ------------------------------------------------------------------------
\* IterableWeakMap
\* ------------------------------------------------------------------------

\* a faulty finalizer: it empties the #set in place of the guarded deletes
MapFinalizer_ClearsSet(cell) ==
  [set |-> <<>>, map |-> map[cell.inst], registry |-> registry,
   ret |-> Undefined]

\* the finalizer of IterableWeakMap.#registry, called with heldValue `cell`:
\* the #set and #map of the instance after the call, and what it throws
\* (Set.prototype.delete and WeakMap.prototype.delete throw for no argument)
MapFinalizer(cell) ==
  IF Deref(cell.ref) # Undefined
    THEN [set |-> JsSetDelete(set[cell.inst], cell.ref),
          map |-> WeakMapDelete(map[cell.inst], Deref(cell.ref)),
          registry |-> registry, ret |-> Undefined]
    ELSE [set |-> set[cell.inst], map |-> map[cell.inst],
          registry |-> registry, ret |-> Undefined]

\* the WeakRef objects that the application makes of its keys, to pass them
\* to get and has: each is an object of its own, different from every key
RefNames == <<"r1", "r2", "r3", "r4">>

\* `new WeakRef(o)`, made by the application
WeakRefOf(o) == RefNames[CHOOSE n \in 1..NumObjects : ObjNames[n] = o]

\* IterableWeakMap.prototype.get
MapGetResult(i, key) ==
  LET p == WeakMapGet(map[i], key)
  IN  IF Deref(p.k) = key THEN p.v ELSE Undefined

\* get reads #map and the WeakRef: a call changes nothing, and what it
\* returns is MapGetResult
MapGet(i, key) ==
  /\ kind = "map" /\ CanPass(key)
  /\ MapGetResult(i, key) \in Values \cup {Undefined}
  /\ UNCHANGED vars

\* IterableWeakMap.prototype.has
MapHasResult(i, key) ==
  LET p == WeakMapGet(map[i], key)
  IN  IF Deref(p.k) = key THEN "true" ELSE "false"

MapHas(i, key) ==
  /\ kind = "map" /\ CanPass(key)
  /\ MapHasResult(i, key) \in {"true", "false"}
  /\ UNCHANGED vars

\* a faulty set: on a key the map has, it returns without storing the value
MapSetBody_NoOverwrite(i, key, value) ==
  LET k == WeakMapGet(map[i], key).k
  IN  IF Deref(k) = key
        THEN [registry |-> registry, map |-> map[i], set |-> set[i],
              ret |-> IF CanBeHeldWeakly(key) THEN "this" ELSE "TypeError"]
        ELSE IF ~CanBeHeldWeakly(key)
               THEN [registry |-> registry, map |-> map[i], set |-> set[i],
                     ret |-> "TypeError"]
               ELSE LET ref == NewWeakRef(key)
                    IN  [registry |->
                           RegistryRegister(registry, Cell(key, ref, i)),
                         map |-> WeakMapSet(map[i], key,
                                            [k |-> ref, v |-> value]),
                         set |-> JsSetAdd(set[i], ref), ret |-> "this"]

\* a faulty set: it makes a new WeakRef also for a key the map has
MapSetBody_AlwaysNewRef(i, key, value) ==
  IF ~CanBeHeldWeakly(key)
    THEN [registry |-> registry, map |-> map[i], set |-> set[i],
          ret |-> "TypeError"]
    ELSE LET ref == NewWeakRef(key)
         IN  [registry |-> RegistryRegister(registry, Cell(key, ref, i)),
              map |-> WeakMapSet(map[i], key, [k |-> ref, v |-> value]),
              set |-> JsSetAdd(set[i], ref), ret |-> "this"]

\* a faulty set: it ignores a key that cannot be held weakly
MapSetBody_SilentOnInvalid(i, key, value) ==
  LET k == WeakMapGet(map[i], key).k
      ref == IF Deref(k) = key THEN k ELSE NewWeakRef(key)
  IN  IF ~CanBeHeldWeakly(key)
        THEN [registry |-> registry, map |-> map[i], set |-> set[i],
              ret |-> "this"]
        ELSE [registry |-> IF Deref(k) = key THEN registry
                           ELSE RegistryRegister(registry, Cell(key, ref, i)),
              map |-> WeakMapSet(map[i], key, [k |-> ref, v |-> value]),
              set |-> JsSetAdd(set[i], ref), ret |-> "this"]

\* a faulty set: it registers the key again when the map has it, as add does
MapSetBody_RegistersAgain(i, key, value) ==
  LET k == WeakMapGet(map[i], key).k
  IN  IF Deref(k) = key
        THEN IF CanBeHeldWeakly(key)
               THEN [registry |->
                       RegistryRegister(registry, Cell(key, k, i)),
                     map |-> WeakMapSet(map[i], key, [k |-> k, v |-> value]),
                     set |-> set[i], ret |-> "this"]
               ELSE [registry |-> registry, map |-> map[i], set |-> set[i],
                     ret |-> "TypeError"]
        ELSE IF ~CanBeHeldWeakly(key)
               THEN [registry |-> registry, map |-> map[i], set |-> set[i],
                     ret |-> "TypeError"]
               ELSE LET ref == NewWeakRef(key)
                    IN  [registry |->
                           RegistryRegister(registry, Cell(key, ref, i)),
                         map |-> WeakMapSet(map[i], key,
                                            [k |-> ref, v |-> value]),
                         set |-> JsSetAdd(set[i], ref), ret |-> "this"]

\* the body of IterableWeakMap.prototype.set: the registry, the #map and
\* the #set of instance i that it leaves, and what it returns or throws
MapSetBody(i, key, value) ==
  LET k == WeakMapGet(map[i], key).k
  IN  IF Deref(k) = key
        THEN IF CanBeHeldWeakly(key)
               THEN [registry |-> registry,
                     map |-> WeakMapSet(map[i], key, [k |-> k, v |-> value]),
                     set |-> set[i], ret |-> "this"]
               \* WeakMap.prototype.set throws on an invalid key
               ELSE [registry |-> registry, map |-> map[i], set |-> set[i],
                     ret |-> "TypeError"]
        ELSE IF ~CanBeHeldWeakly(key)
               \* `new WeakRef(key)` throws on an invalid target
               THEN [registry |-> registry, map |-> map[i], set |-> set[i],
                     ret |-> "TypeError"]
               ELSE LET ref == NewWeakRef(key)
                    IN  [registry |->
                           RegistryRegister(registry, Cell(key, ref, i)),
                         map |-> WeakMapSet(map[i], key,
                                            [k |-> ref, v |-> value]),
                         set |-> JsSetAdd(set[i], ref), ret |-> "this"]

\* IterableWeakMap.prototype.set
MapSet(i, key, value) ==
  /\ kind = "map" /\ CanPass(key)
  /\ LET r == MapSetBody(i, key, value)
     IN  /\ registry' = r.registry
         /\ map' = [map EXCEPT ![i] = r.map]
         /\ set' = [set EXCEPT ![i] = r.set]
         /\ last' = Result(i, "set", r.ret, key,
                           IF r.ret = "this" THEN value ELSE Undefined, 0)
  /\ HistMutated
  /\ UNCHANGED <<kind, insts, objState, walk>>

\* a faulty delete: it forgets `this.#map.delete(key)`
MapDeleteBody_KeepsMap(i, key) ==
  LET k == WeakMapGet(map[i], key).k
  IN  IF Deref(k) = key
        THEN IF ~CanBeHeldWeakly(key)
               THEN [registry |-> registry, map |-> map[i], set |-> set[i],
                     ret |-> "TypeError"]
               ELSE [registry |-> RegistryUnregister(registry, key),
                     map |-> map[i],
                     set |-> JsSetDelete(set[i], k), ret |-> "true"]
        ELSE [registry |-> registry, map |-> map[i], set |-> set[i],
              ret |-> "false"]

\* a faulty delete: it forgets `this.#set.delete(k)`
MapDeleteBody_KeepsRef(i, key) ==
  LET k == WeakMapGet(map[i], key).k
  IN  IF Deref(k) = key
        THEN IF ~CanBeHeldWeakly(key)
               THEN [registry |-> registry, map |-> map[i], set |-> set[i],
                     ret |-> "TypeError"]
               ELSE [registry |-> RegistryUnregister(registry, key),
                     map |-> WeakMapDelete(map[i], key),
                     set |-> set[i], ret |-> "true"]
        ELSE [registry |-> registry, map |-> map[i], set |-> set[i],
              ret |-> "false"]

\* a faulty delete: it forgets `this.#reg.unregister(key)`
MapDeleteBody_KeepsCell(i, key) ==
  LET k == WeakMapGet(map[i], key).k
  IN  IF Deref(k) = key
        THEN IF ~CanBeHeldWeakly(key)
               THEN [registry |-> registry, map |-> map[i], set |-> set[i],
                     ret |-> "true"]
               ELSE [registry |-> registry,
                     map |-> WeakMapDelete(map[i], key),
                     set |-> JsSetDelete(set[i], k), ret |-> "true"]
        ELSE [registry |-> registry, map |-> map[i], set |-> set[i],
              ret |-> "false"]

\* the body of IterableWeakMap.prototype.delete
MapDeleteBody(i, key) ==
  LET k == WeakMapGet(map[i], key).k
  IN  IF Deref(k) = key
        THEN IF ~CanBeHeldWeakly(key)
               \* FinalizationRegistry.prototype.unregister throws on a
               \* token that cannot be held weakly
               THEN [registry |-> registry, map |-> map[i], set |-> set[i],
                     ret |-> "TypeError"]
               ELSE [registry |-> RegistryUnregister(registry, key),
                     map |-> WeakMapDelete(map[i], key),
                     set |-> JsSetDelete(set[i], k), ret |-> "true"]
        ELSE [registry |-> registry, map |-> map[i], set |-> set[i],
              ret |-> "false"]

\* IterableWeakMap.prototype.delete
MapDelete(i, key) ==
  /\ kind = "map" /\ CanPass(key)
  /\ LET r == MapDeleteBody(i, key)
     IN  /\ registry' = r.registry
         /\ map' = [map EXCEPT ![i] = r.map]
         /\ set' = [set EXCEPT ![i] = r.set]
         /\ walk' = WalkFix(i, set[i], r.set)
         /\ last' = Result(i, "delete", r.ret, Undefined, Undefined, 0)
  /\ HistMutated
  /\ UNCHANGED <<kind, insts, objState>>

\* a faulty size: it counts every WeakRef of #set, resolved or not
RECURSIVE MapSizeLoop_CountsAll(_, _, _)
MapSizeLoop_CountsAll(s, j, n) ==
  IF j > Len(s) THEN n ELSE MapSizeLoop_CountsAll(s, j + 1, n + 1)

\* IterableWeakMap.prototype.size: the number of WeakRefs that resolve
RECURSIVE MapSizeLoop(_, _, _)
MapSizeLoop(s, j, n) ==
  IF j > Len(s) THEN n
  ELSE MapSizeLoop(s, j + 1, IF Deref(s[j]) # Undefined THEN n + 1 ELSE n)

\* the getter only counts: a call changes nothing
MapSize(i) ==
  /\ kind = "map"
  /\ MapSizeLoop(set[i], 1, 0) \in 0..Len(set[i])
  /\ UNCHANGED vars

\* a faulty clear: its loop forgets `this.#map.delete(key)`
RECURSIVE MapClearLoop_KeepsMap(_, _, _, _)
MapClearLoop_KeepsMap(s, j, reg, m) ==
  IF j > Len(s) THEN [registry |-> reg, map |-> m]
  ELSE LET key == Deref(s[j])
       IN  IF key # Undefined
             THEN MapClearLoop_KeepsMap(s, j + 1,
                                        RegistryUnregister(reg, key), m)
             ELSE MapClearLoop_KeepsMap(s, j + 1, reg, m)

\* the loop of IterableWeakMap.prototype.clear over #set from element j on:
\* the registry and the #map it leaves
RECURSIVE MapClearLoop(_, _, _, _)
MapClearLoop(s, j, reg, m) ==
  IF j > Len(s) THEN [registry |-> reg, map |-> m]
  ELSE LET key == Deref(s[j])
       IN  IF key # Undefined
             THEN MapClearLoop(s, j + 1, RegistryUnregister(reg, key),
                               WeakMapDelete(m, key))
             ELSE MapClearLoop(s, j + 1, reg, m)

\* IterableWeakMap.prototype.clear
MapClear(i) ==
  /\ kind = "map"
  /\ LET r == MapClearLoop(set[i], 1, registry, map[i])
     IN  /\ registry' = r.registry
         /\ map' = [map EXCEPT ![i] = r.map]
  /\ set' = [set EXCEPT ![i] = <<>>]
  /\ walk' = WalkFix(i, set[i], <<>>)
  /\ last' = Result(i, "clear", Undefined, Undefined, Undefined, 0)
  /\ HistMutated
  /\ UNCHANGED <<kind, insts, objState>>

\* a faulty entries: it yields for every WeakRef, without `if (r)`
MapEntriesLoop_NoCheck(s, m, pos) ==
  IF pos >= Len(s) THEN [done |-> TRUE, pos |-> pos, key |-> Undefined,
                         value |-> Undefined]
  ELSE [done |-> FALSE, pos |-> pos + 1, key |-> Deref(s[pos + 1]),
        value |-> WeakMapGet(m, Deref(s[pos + 1])).v]

\* the loop of IterableWeakMap.prototype.entries over #set, resumed after
\* `pos` elements: the next yield, or the end of the walk
RECURSIVE MapEntriesLoop(_, _, _)
MapEntriesLoop(s, m, pos) ==
  IF pos >= Len(s) THEN [done |-> TRUE, pos |-> pos, key |-> Undefined,
                         value |-> Undefined]
  ELSE LET key == Deref(s[pos + 1])
       IN  IF key \in DOMAIN m
             THEN [done |-> FALSE, pos |-> pos + 1, key |-> key,
                   value |-> m[key].v]
             ELSE MapEntriesLoop(s, m, pos + 1)

\* IterableWeakMap.prototype.entries (also keys, values, [Symbol.iterator],
\* which all run this generator): the application asks for an iterator
MapEntries(i) ==
  /\ kind = "map" /\ ~InForEach
  /\ walk' = NewWalk(i, "next", Undefined)
  /\ last' = Result(i, "entries", "iterator", Undefined, Undefined, 0)
  /\ HistStart(i)
  /\ UNCHANGED <<kind, insts, objState, map, set, registry>>

\* one next() of that iterator: runs the generator to its next yield, which
\* hands the application a strong reference to the key, or to its end
MapEntriesNext(i) ==
  /\ kind = "map" /\ walk.active /\ walk.inst = i /\ walk.by = "next"
  /\ LET r == MapEntriesLoop(set[i], map[i], walk.pos)
     IN  IF r.done
           THEN /\ walk' = Idle
                /\ last' = Result(i, "next", "done", Undefined, Undefined, 0)
                /\ UNCHANGED <<objState, hist>>
           ELSE /\ walk' = [walk EXCEPT !.pos = r.pos]
                /\ last' = Result(i, "next", "yield", r.key, r.value, 0)
                /\ objState' = [objState EXCEPT ![r.key] = "held"]
                /\ HistYield(r.key)
  /\ UNCHANGED <<kind, insts, map, set, registry>>

\* the arguments of `callback.call(thisArg, value, key, this)`
MapCallbackArgs_KeyFirst(key, value, i) == <<key, value, i>>

MapCallbackArgs(key, value, i) == <<value, key, i>>

\* a faulty forEach: it has no `typeof callback !== "function"` test
MapForEachBody_NoTypeCheck(i, callback, thisArg) ==
  [ret |-> "entered", walk |-> NewWalk(i, "forEach", thisArg)]

\* the head of IterableWeakMap.prototype.forEach: it throws, or enters its
\* loop over `this`
MapForEachBody(i, callback, thisArg) ==
  IF callback # "function" THEN [ret |-> "TypeError", walk |-> walk]
  ELSE [ret |-> "entered", walk |-> NewWalk(i, "forEach", thisArg)]

\* IterableWeakMap.prototype.forEach is called
MapForEach(i, callback, thisArg) ==
  /\ kind = "map" /\ ~InForEach
  /\ LET r == MapForEachBody(i, callback, thisArg)
     IN  /\ walk' = r.walk
         /\ last' = Result(i, "forEach", r.ret, Undefined, Undefined, 0)
  /\ HistMutated
  /\ UNCHANGED <<kind, insts, objState, map, set, registry>>

\* one turn of the loop of forEach: the generator runs to its next yield and
\* the callback is called with the entry, or the generator ends and forEach
\* returns
MapForEachStep(i) ==
  /\ kind = "map" /\ InForEach /\ walk.inst = i
  /\ LET r == MapEntriesLoop(set[i], map[i], walk.pos)
     IN  IF r.done
           THEN /\ walk' = Idle
                /\ last' = Result(i, "forEach", Undefined, Undefined,
                                  Undefined, 0)
                /\ UNCHANGED objState
           ELSE /\ walk' = [walk EXCEPT !.pos = r.pos]
                /\ last' = CallbackCall(i, walk.thisArg,
                                        MapCallbackArgs(r.key, r.value, i))
                /\ objState' = [objState EXCEPT ![r.key] = "held"]
  /\ UNCHANGED hist
  /\ UNCHANGED <<kind, insts, map, set, registry>>

\* the host calls the finalizer for one cell whose target was reclaimed and
\* drops the cell
MapFire(cell) ==
  /\ kind = "map" /\ ~InForEach
  /\ cell \in DOMAIN registry
  /\ objState[cell.target] = "reclaimed"
  /\ LET r == MapFinalizer(cell)
     IN  /\ set' = [set EXCEPT ![cell.inst] = r.set]
         /\ map' = [map EXCEPT ![cell.inst] = r.map]
         /\ walk' = WalkFix(cell.inst, set[cell.inst], r.set)
         /\ registry' = DropCell(r.registry, cell)
         /\ last' = Result(cell.inst, "finalizer", r.ret, Undefined,
                           Undefined, 0)
  /\ HistEnv
  /\ UNCHANGED <<kind, insts, objState>>

\* ------------------------------------------------------------------------
\* IterableWeakMap.groupBy.  A call runs to its end in one step: it is
\* synchronous, and the key selector of the model is a function of the item
\* ------------------------------------------------------------------------

\* the items of the application; the keys they select are its objects
ItemValues == 1..NumItems

RECURSIVE SeqsUpTo(_, _)
SeqsUpTo(S, n) ==
  IF n = 0 THEN {<<>>}
  ELSE LET shorter == SeqsUpTo(S, n - 1)
       IN  shorter \cup {Append(q, x) : q \in shorter, x \in S}

\* what the application may pass as `items`: an array of items, or a value
\* that is not iterable (the tests pass 123)
ItemsArgs ==
  {[iterable |-> TRUE, seq |-> q] : q \in SeqsUpTo(ItemValues, MaxItems)}
    \cup {[iterable |-> FALSE, seq |-> <<>>]}

\* what the application may pass as `keySelector`: a function from the item
\* to an object or to undefined (the tests pass `() => {}`), or a value that
\* cannot be called (the tests pass 123)
KeySelectors ==
  {[callable |-> TRUE, f |-> f] :
     f \in [ItemValues -> Objects \cup {Undefined}]}
    \cup {[callable |-> FALSE, f |-> [x \in ItemValues |-> Undefined]]}

\* the WeakRefs that the structures st of a call in progress reference
StRefs(st) ==
  Range(st.set) \cup {st.map[o].k : o \in DOMAIN st.map}
    \cup {c.ref : c \in DOMAIN st.registry}

\* `new WeakRef(key)` in a call in progress
StNewWeakRef(st, key) ==
  LET used == {r.id : r \in {u \in UsedRefs \cup StRefs(st) :
                                u.target = key}}
  IN  [id |-> CHOOSE n \in 1..(Cardinality(used) + 1) : n \notin used,
       target |-> key]

\* `map.get(key) ?? []` on the map under construction: get returns the
\* payload's value if the WeakRef of the entry resolves to key, else
\* undefined; the arrays that groupBy stores are never nullish
GetOrEmpty(m, key) ==
  IF key \in DOMAIN m /\ Deref(m[key].k) = key THEN m[key].v ELSE <<>>

\* `map.set(key, values)` on the map under construction, instance i, whose
\* structures are st: IterableWeakMap.prototype.set
StMapSet(st, i, key, value) ==
  LET k == WeakMapGet(st.map, key).k
  IN  IF Deref(k) = key
        THEN IF CanBeHeldWeakly(key)
               THEN [registry |-> st.registry,
                     map |-> WeakMapSet(st.map, key, [k |-> k, v |-> value]),
                     set |-> st.set, ret |-> "this"]
               ELSE [registry |-> st.registry, map |-> st.map,
                     set |-> st.set, ret |-> "TypeError"]
        ELSE IF ~CanBeHeldWeakly(key)
               THEN [registry |-> st.registry, map |-> st.map,
                     set |-> st.set, ret |-> "TypeError"]
               ELSE LET ref == StNewWeakRef(st, key)
                    IN  [registry |->
                           RegistryRegister(st.registry, Cell(key, ref, i)),
                         map |-> WeakMapSet(st.map, key,
                                            [k |-> ref, v |-> value]),
                         set |-> JsSetAdd(st.set, ref), ret |-> "this"]

\* what a call of groupBy leaves: the structures, what it returned or threw,
\* and the calls of keySelector it made, each <<value, index>>
GroupByEnd(st, ret, calls) ==
  [registry |-> st.registry, map |-> st.map, set |-> st.set, ret |-> ret,
   calls |-> calls]

\* a faulty loop: `const values = []` in place of `map.get(key) ?? []`
RECURSIVE GroupByLoop_FreshArray(_, _, _, _, _)
GroupByLoop_FreshArray(items, keySelector, index, st, calls) ==
  IF index >= Len(items) THEN GroupByEnd(st, "map", calls)
  ELSE IF ~keySelector.callable THEN GroupByEnd(st, "TypeError", calls)
  ELSE LET value == items[index + 1]
           key == keySelector.f[value]
           r == StMapSet(st, 1, key, <<value>>)
           called == Append(calls, <<value, index>>)
       IN  IF r.ret = "TypeError" THEN GroupByEnd(st, "TypeError", called)
           ELSE GroupByLoop_FreshArray(items, keySelector, index + 1, r,
                                       called)

\* the loop of groupBy over the array `items`, resumed at `index`
RECURSIVE GroupByLoop(_, _, _, _, _)
GroupByLoop(items, keySelector, index, st, calls) ==
  IF index >= Len(items) THEN GroupByEnd(st, "map", calls)
  \* `keySelector(value, index++)` throws if keySelector cannot be called
  ELSE IF ~keySelector.callable THEN GroupByEnd(st, "TypeError", calls)
  ELSE LET value == items[index + 1]
           key == keySelector.f[value]
           values == GetOrEmpty(st.map, key)
           r == StMapSet(st, 1, key, Append(values, value))
           called == Append(calls, <<value, index>>)
       IN  IF r.ret = "TypeError" THEN GroupByEnd(st, "TypeError", called)
           ELSE GroupByLoop(items, keySelector, index + 1, r, called)

\* the body of groupBy: `new IterableWeakMap()`, then the loop; `for (const
\* value of items)` throws at once if items is not iterable
GroupByBody(items, keySelector) ==
  LET st == [registry |-> registry, map |-> [o \in {} |-> NoPayload],
             set |-> <<>>]
  IN  IF ~items.iterable THEN GroupByEnd(st, "TypeError", <<>>)
      ELSE GroupByLoop(items.seq, keySelector, 0, st, <<>>)

\* the record of a call of groupBy that has returned or thrown
GroupByCall(items, keySelector, ret, calls) ==
  [inst |-> 1, op |-> "groupBy", ret |-> ret, key |-> Undefined,
   value |-> Undefined, n |-> 0, items |-> items,
   keySelector |-> keySelector, calls |-> calls]

\* the application, which has no container yet, calls the static method
\* IterableWeakMap.groupBy; instance 1 is the map it gets, if it gets one
GroupBy(items, keySelector) ==
  /\ kind = "map" /\ insts = {} /\ last = NoCall
  /\ LET r == GroupByBody(items, keySelector)
     IN  /\ registry' = r.registry
         /\ map' = [map EXCEPT ![1] = r.map]
         /\ set' = [set EXCEPT ![1] = r.set]
         /\ insts' = IF r.ret = "map" THEN {1} ELSE {}
         /\ last' = GroupByCall(items, keySelector, r.ret, r.calls)
  /\ UNCHANGED <<kind, objState, walk, hist>>

\* ------------------------------------------------------------------------
\* IterableWeakSet.  Its #map payload is `{ ref }`: the model stores it as
\* [k |-> ref, v |-> Undefined], the shape of the map's payload
\* ------------------------------------------------------------------------

\* a faulty finalizer: it runs its three statements without `if (ref?.deref())`
SetFinalizer_NoGuard(cell) ==
  [set |-> JsSetDelete(set[cell.inst], cell.ref),
   map |-> WeakMapDelete(map[cell.inst], Deref(cell.ref)),
   registry |-> IF CanBeHeldWeakly(Deref(cell.ref))
                  THEN RegistryUnregister(registry, Deref(cell.ref))
                  ELSE registry,
   ret |-> IF CanBeHeldWeakly(Deref(cell.ref)) THEN Undefined
           ELSE "TypeError"]

\* the finalizer of IterableWeakSet.#registry, called with heldValue `cell`:
\* what it leaves, and what it throws (unregister throws a TypeError on a
\* token that cannot be held weakly)
SetFinalizer(cell) ==
  IF Deref(cell.ref) # Undefined
    THEN [set |-> JsSetDelete(set[cell.inst], cell.ref),
          map |-> WeakMapDelete(map[cell.inst], Deref(cell.ref)),
          registry |-> IF CanBeHeldWeakly(Deref(cell.ref))
                         THEN RegistryUnregister(registry, Deref(cell.ref))
                         ELSE registry,
          ret |-> IF CanBeHeldWeakly(Deref(cell.ref)) THEN Undefined
                  ELSE "TypeError"]
    ELSE [set |-> set[cell.inst], map |-> map[cell.inst],
          registry |-> registry, ret |-> Undefined]

\* IterableWeakSet.prototype.has
SetHasResult(i, value) ==
  IF Deref(WeakMapGet(map[i], value).k) = value THEN "true" ELSE "false"

SetHas(i, value) ==
  /\ kind = "set" /\ CanPass(value)
  /\ SetHasResult(i, value) \in {"true", "false"}
  /\ UNCHANGED vars

\* a faulty add: `ref = new WeakRef(value)` in place of `ref ??= ...`
SetAddBody_AlwaysNewRef(i, value) ==
  IF ~CanBeHeldWeakly(value)
    THEN [registry |-> registry, map |-> map[i], set |-> set[i],
          swept |-> set[i], ret |-> "TypeError"]
    ELSE LET ref == NewWeakRef(value)
         IN  [registry |-> RegistryRegister(registry, Cell(value, ref, i)),
              map |-> WeakMapSet(map[i], value, [k |-> ref, v |-> Undefined]),
              set |-> JsSetAdd(set[i], ref),
              swept |-> set[i], ret |-> "this"]

\* the body of IterableWeakSet.prototype.add: the registry, the #map and the
\* #set of instance i that it leaves (`swept`: the #set after the deletion
\* of its first branch, before the add), and what it returns or throws
SetAddBody(i, value) ==
  LET old == WeakMapGet(map[i], value).k
      \* `if (ref && ref.deref() !== value)`
      stale == old # NoRef /\ Deref(old) # value
      reg1 == IF stale THEN RegistryUnregister(registry, value) ELSE registry
      set1 == IF stale THEN JsSetDelete(set[i], old) ELSE set[i]
      map1 == IF stale THEN WeakMapDelete(map[i], value) ELSE map[i]
  IN  IF old = NoRef /\ ~CanBeHeldWeakly(value)
        \* `ref ??= new WeakRef(value)` throws on an invalid target
        THEN [registry |-> registry, map |-> map[i], set |-> set[i],
              swept |-> set[i], ret |-> "TypeError"]
        ELSE LET ref == IF old = NoRef THEN NewWeakRef(value) ELSE old
             IN  [registry |-> RegistryRegister(reg1, Cell(value, ref, i)),
                  map |-> WeakMapSet(map1, value,
                                     [k |-> ref, v |-> Undefined]),
                  set |-> JsSetAdd(set1, ref),
                  swept |-> set1, ret |-> "this"]

\* IterableWeakSet.prototype.add; the model lets up to MaxExtra repeated
\* registrations pile up
SetAdd(i, value) ==
  /\ kind = "set" /\ CanPass(value)
  /\ LET r == SetAddBody(i, value)
     IN  /\ Extra(r.registry) <= MaxExtra
         /\ registry' = r.registry
         /\ map' = [map EXCEPT ![i] = r.map]
         /\ set' = [set EXCEPT ![i] = r.set]
         /\ walk' = WalkFix(i, set[i], r.swept)
         /\ last' = Result(i, "add", r.ret, value, Undefined, 0)
  /\ HistMutated
  /\ UNCHANGED <<kind, insts, objState>>

\* a faulty delete: it forgets `this.#set.delete(ref)`
SetDeleteBody_KeepsRef(reg, m, s, value) ==
  LET ref == WeakMapGet(m, value).k
  IN  IF ref # NoRef
        THEN [registry |-> RegistryUnregister(reg, value),
              map |-> WeakMapDelete(m, value),
              set |-> s,
              ret |-> IF ref \in Range(s) THEN "true" ELSE "false"]
        ELSE [registry |-> reg, map |-> m, set |-> s, ret |-> "false"]

\* the body of IterableWeakSet.prototype.delete on the registry reg, the
\* #map m and the #set s: what it leaves and what it returns
SetDeleteBody(reg, m, s, value) ==
  LET ref == WeakMapGet(m, value).k
  IN  IF ref # NoRef
        THEN [registry |-> RegistryUnregister(reg, value),
              map |-> WeakMapDelete(m, value),
              set |-> JsSetDelete(s, ref),
              ret |-> IF ref \in Range(s) THEN "true" ELSE "false"]
        ELSE [registry |-> reg, map |-> m, set |-> s, ret |-> "false"]

\* IterableWeakSet.prototype.delete
SetDelete(i, value) ==
  /\ kind = "set" /\ CanPass(value)
  /\ LET r == SetDeleteBody(registry, map[i], set[i], value)
     IN  /\ registry' = r.registry
         /\ map' = [map EXCEPT ![i] = r.map]
         /\ set' = [set EXCEPT ![i] = r.set]
         /\ walk' = WalkFix(i, set[i], r.set)
         /\ last' = Result(i, "delete", r.ret, Undefined, Undefined, 0)
  /\ HistMutated
  /\ UNCHANGED <<kind, insts, objState>>

\* the loop of IterableWeakSet.prototype.clear, resumed after `pos` elements
\* of #set: `for (const r of this.#set) this.delete(r.deref()!)`
RECURSIVE SetClearLoop(_, _, _, _)
SetClearLoop(reg, m, s, pos) ==
  IF pos >= Len(s) THEN [registry |-> reg, map |-> m, set |-> s]
  ELSE LET r == SetDeleteBody(reg, m, s, Deref(s[pos + 1]))
       IN  SetClearLoop(r.registry, r.map, r.set, PosAfter(s, r.set, pos + 1))

\* IterableWeakSet.prototype.clear
SetClear(i) ==
  /\ kind = "set"
  /\ LET r == SetClearLoop(registry, map[i], set[i], 0)
     IN  /\ registry' = r.registry
         /\ map' = [map EXCEPT ![i] = r.map]
  /\ set' = [set EXCEPT ![i] = <<>>]
  /\ walk' = WalkFix(i, set[i], <<>>)
  /\ last' = Result(i, "clear", Undefined, Undefined, Undefined, 0)
  /\ HistMutated
  /\ UNCHANGED <<kind, insts, objState>>

\* a faulty size: it counts the WeakRefs it evicts as well
RECURSIVE SetSizeLoop_CountsEvicted(_, _, _)
SetSizeLoop_CountsEvicted(s, pos, n) ==
  IF pos >= Len(s) THEN [set |-> s, n |-> n]
  ELSE IF Deref(s[pos + 1]) # Undefined
         THEN SetSizeLoop_CountsEvicted(s, pos + 1, n + 1)
         ELSE SetSizeLoop_CountsEvicted(JsSetDelete(s, s[pos + 1]), pos,
                                        n + 1)

\* a faulty size: it counts as the map's getter does, and evicts nothing
RECURSIVE SetSizeLoop_KeepsStale(_, _, _)
SetSizeLoop_KeepsStale(s, pos, n) ==
  IF pos >= Len(s) THEN [set |-> s, n |-> n]
  ELSE SetSizeLoop_KeepsStale(s, pos + 1,
                              IF Deref(s[pos + 1]) # Undefined THEN n + 1
                              ELSE n)

\* the loop of the getter IterableWeakSet.prototype.size, resumed after `pos`
\* elements of #set: the count, and the #set without the WeakRefs it evicted
RECURSIVE SetSizeLoop(_, _, _)
SetSizeLoop(s, pos, n) ==
  IF pos >= Len(s) THEN [set |-> s, n |-> n]
  ELSE IF Deref(s[pos + 1]) # Undefined
         THEN SetSizeLoop(s, pos + 1, n + 1)
         ELSE SetSizeLoop(JsSetDelete(s, s[pos + 1]), pos, n)

SetSize(i) ==
  /\ kind = "set"
  /\ LET r == SetSizeLoop(set[i], 0, 0)
     IN  /\ set' = [set EXCEPT ![i] = r.set]
         /\ walk' = WalkFix(i, set[i], r.set)
         /\ last' = Result(i, "size", "number", Undefined, Undefined, r.n)
  /\ UNCHANGED hist
  /\ UNCHANGED <<kind, insts, objState, map, registry>>

\* a faulty values: after it evicted a WeakRef it moves on by one element,
\* as a loop over an array index would
RECURSIVE SetValuesLoop_SkipAfterEvict(_, _)
SetValuesLoop_SkipAfterEvict(s, pos) ==
  IF pos >= Len(s) THEN [done |-> TRUE, pos |-> Len(s), key |-> Undefined,
                         set |-> s]
  ELSE LET value == Deref(s[pos + 1])
       IN  IF value # Undefined
             THEN [done |-> FALSE, pos |-> pos + 1, key |-> value, set |-> s]
             ELSE SetValuesLoop_SkipAfterEvict(JsSetDelete(s, s[pos + 1]),
                                               pos + 1)

\* the loop of IterableWeakSet.prototype.values over #set, resumed after
\* `pos` elements: the next yield, or the end of the walk, and the #set
\* without the WeakRefs it evicted on the way
RECURSIVE SetValuesLoop(_, _)
SetValuesLoop(s, pos) ==
  IF pos >= Len(s) THEN [done |-> TRUE, pos |-> pos, key |-> Undefined,
                         set |-> s]
  ELSE LET value == Deref(s[pos + 1])
       IN  IF value # Undefined
             THEN [done |-> FALSE, pos |-> pos + 1, key |-> value, set |-> s]
             ELSE SetValuesLoop(JsSetDelete(s, s[pos + 1]), pos)

\* IterableWeakSet.prototype.values (also keys, entries, [Symbol.iterator],
\* which all run this generator): the application asks for an iterator
SetValues(i) ==
  /\ kind = "set" /\ ~InForEach
  /\ walk' = NewWalk(i, "next", Undefined)
  /\ last' = Result(i, "values", "iterator", Undefined, Undefined, 0)
  /\ HistStart(i)
  /\ UNCHANGED <<kind, insts, objState, map, set, registry>>

\* one next() of that iterator
SetValuesNext(i) ==
  /\ kind = "set" /\ walk.active /\ walk.inst = i /\ walk.by = "next"
  /\ LET r == SetValuesLoop(set[i], walk.pos)
     IN  /\ set' = [set EXCEPT ![i] = r.set]
         /\ IF r.done
              THEN /\ walk' = Idle
                   /\ last' = Result(i, "next", "done", Undefined, Undefined, 0)
                   /\ UNCHANGED <<objState, hist>>
              ELSE /\ walk' = [walk EXCEPT !.pos = r.pos]
                   /\ last' = Result(i, "next", "yield", r.key, r.key, 0)
                   /\ objState' = [objState EXCEPT ![r.key] = "held"]
                   /\ HistYield(r.key)
  /\ UNCHANGED <<kind, insts, map, registry>>

\* the arguments of `callback.call(thisArg, value, value2, this)`
SetCallbackArgs(value, i) == <<value, value, i>>

\* the head of IterableWeakSet.prototype.forEach
SetForEachBody(i, callback, thisArg) ==
  IF callback # "function" THEN [ret |-> "TypeError", walk |-> walk]
  ELSE [ret |-> "entered", walk |-> NewWalk(i, "forEach", thisArg)]

\* IterableWeakSet.prototype.forEach is called
SetForEach(i, callback, thisArg) ==
  /\ kind = "set" /\ ~InForEach
  /\ LET r == SetForEachBody(i, callback, thisArg)
     IN  /\ walk' = r.walk
         /\ last' = Result(i, "forEach", r.ret, Undefined, Undefined, 0)
  /\ HistMutated
  /\ UNCHANGED <<kind, insts, objState, map, set, registry>>

\* one turn of the loop of forEach over this.entries()
SetForEachStep(i) ==
  /\ kind = "set" /\ InForEach /\ walk.inst = i
  /\ LET r == SetValuesLoop(set[i], walk.pos)
     IN  /\ set' = [set EXCEPT ![i] = r.set]
         /\ IF r.done
              THEN /\ walk' = Idle
                   /\ last' = Result(i, "forEach", Undefined, Undefined,
                                     Undefined, 0)
                   /\ UNCHANGED objState
              ELSE /\ walk' = [walk EXCEPT !.pos = r.pos]
                   /\ last' = CallbackCall(i, walk.thisArg,
                                           SetCallbackArgs(r.key, i))
                   /\ objState' = [objState EXCEPT ![r.key] = "held"]
  /\ UNCHANGED hist
  /\ UNCHANGED <<kind, insts, map, registry>>

\* the host calls the finalizer for one cell whose target was reclaimed and
\* drops the cell
SetFire(cell) ==
  /\ kind = "set" /\ ~InForEach
  /\ cell \in DOMAIN registry
  /\ objState[cell.target] = "reclaimed"
  /\ LET r == SetFinalizer(cell)
     IN  /\ set' = [set EXCEPT ![cell.inst] = r.set]
         /\ map' = [map EXCEPT ![cell.inst] = r.map]
         /\ walk' = WalkFix(cell.inst, set[cell.inst], r.set)
         /\ registry' = DropCell(r.registry, cell)
         /\ last' = Result(cell.inst, "finalizer", r.ret, Undefined,
                           Undefined, 0)
  /\ HistEnv
  /\ UNCHANGED <<kind, insts, objState>>

\* ------------------------------------------------------------------------
\* IterableWeakSet: the constructor with values, and union, intersection,
\* difference, symmetricDifference.  Each call is synchronous and runs to
\* its end in one step over a call state g: the registry, and the #map and
\* #set of every instance, the one under construction included
\* ------------------------------------------------------------------------

\* the instance that a call constructs
NewInst == 3

\* the instances that a script of up to four calls constructs, one per call
Results == NewInst..(NewInst + 3)

AllInsts == Insts \cup Results

\* the call state before any container holds anything
EmptyCallState ==
  [registry |-> [c \in {} |-> 0],
   map |-> [i \in AllInsts |-> [o \in {} |-> NoPayload]],
   set |-> [i \in AllInsts |-> <<>>], ret |-> "set", new |-> NewInst]

\* the call state at the start of a call: instance `new` is the
\* `new IterableWeakSet()` of the call
CallState ==
  [registry |-> registry,
   map |-> [i \in AllInsts |->
              IF i \in Insts THEN map[i] ELSE [o \in {} |-> NoPayload]],
   set |-> [i \in AllInsts |-> IF i \in Insts THEN set[i] ELSE <<>>],
   ret |-> "set", new |-> NewInst]

\* the WeakRefs that the structures of call state g reference
CallRefs(g) ==
  UNION {Range(g.set[i]) : i \in AllInsts}
    \cup UNION {{g.map[i][o].k : o \in DOMAIN g.map[i]} : i \in AllInsts}
    \cup {c.ref : c \in DOMAIN g.registry}

\* `new WeakRef(value)` during a call
CallNewWeakRef(g, value) ==
  LET used == {r.id : r \in {u \in CallRefs(g) : u.target = value}}
  IN  [id |-> CHOOSE n \in 1..(Cardinality(used) + 1) : n \notin used,
       target |-> value]

\* IterableWeakSet.prototype.has of instance i during a call
CallSetHas(g, i, value) == Deref(WeakMapGet(g.map[i], value).k) = value

\* IterableWeakSet.prototype.add of instance i during a call
CallSetAdd(g, i, value) ==
  LET old == WeakMapGet(g.map[i], value).k
      stale == old # NoRef /\ Deref(old) # value
      reg1 == IF stale THEN RegistryUnregister(g.registry, value)
              ELSE g.registry
      set1 == IF stale THEN JsSetDelete(g.set[i], old) ELSE g.set[i]
      map1 == IF stale THEN WeakMapDelete(g.map[i], value) ELSE g.map[i]
  IN  IF old = NoRef /\ ~CanBeHeldWeakly(value)
        THEN [g EXCEPT !.ret = "TypeError"]
        ELSE LET ref == IF old = NoRef THEN CallNewWeakRef(g, value) ELSE old
             IN  [g EXCEPT
                    !.registry = RegistryRegister(reg1, Cell(value, ref, i)),
                    !.map[i] = WeakMapSet(map1, value,
                                          [k |-> ref, v |-> Undefined]),
                    !.set[i] = JsSetAdd(set1, ref)]

\* the constructor's loop `for (const v of values ?? []) this.add(v)`,
\* resumed at pos
RECURSIVE Construct(_, _, _, _)
Construct(g, i, values, pos) ==
  IF pos >= Len(values) \/ g.ret = "TypeError" THEN g
  ELSE Construct(CallSetAdd(g, i, values[pos + 1]), i, values, pos + 1)

\* the sequences of distinct elements of S
DistinctSeqs(S) ==
  {q \in SeqsUpTo(S, Cardinality(S)) :
     \A j, k \in 1..Len(q) : q[j] = q[k] => j = k}

\* `new IterableWeakSet(values)`, for an array of distinct objects that the
\* application holds: the application's next container, instance i
SetConstruct(i, values) ==
  /\ kind = "set"
  /\ i \notin insts /\ i = Cardinality(insts) + 1
  /\ \A j \in 1..Len(values) : CanPass(values[j])
  /\ LET g == Construct(CallState, i, values, 0)
     IN  /\ registry' = g.registry
         /\ map' = [j \in Insts |-> g.map[j]]
         /\ set' = [j \in Insts |-> g.set[j]]
         /\ last' = Result(i, "constructor", g.ret, Undefined, Undefined, 0)
  /\ insts' = insts \cup {i}
  /\ UNCHANGED <<kind, objState, walk, hist>>

\* an IterableWeakSet as an operand
WeakSetLike(i) == [type |-> "IterableWeakSet", inst |-> i, seq |-> <<>>]

\* what the application may pass as `other`, a ReadonlySetLike<U> with U a
\* WeakKey: one of its IterableWeakSets, or a native Set or Map that it
\* holds, whose members (keys) in insertion order are objects it holds
OtherArgs ==
  {WeakSetLike(j) : j \in insts}
    \cup {[type |-> t, inst |-> 0, seq |-> q] :
            t \in {"Set", "Map"},
            q \in DistinctSeqs({o \in Objects : objState[o] = "held"})}

\* what the application may pass as `other` that is no set-like: `{}`, as
\* the tests do, which has no size, no has and no keys; or an object with
\* has and keys, over members that the application holds, and no size
NotSetLikeArgs ==
  {[type |-> "object", inst |-> 0, seq |-> <<>>]}
    \cup {[type |-> "sizeless", inst |-> 0, seq |-> q] :
            q \in DistinctSeqs({o \in Objects : objState[o] = "held"})}

\* `like.keys()` throws: like.keys is not a function
KeysThrows(like) == like.type = "object"

\* the test of a loop throws: against.has is not a function
TestThrows(test, against) == test # "all" /\ against.type = "object"

\* `like.has(value)` during a call
LikeHas(g, like, value) ==
  IF like.type = "IterableWeakSet" THEN CallSetHas(g, like.inst, value)
  ELSE value \in Range(like.seq)

\* the test of a loop of the set algebra on `value`: none ("all"),
\* `against.has(value)` ("has") or `!against.has(value)` ("lacks")
Keep(g, test, against, value) ==
  CASE test = "all" -> TRUE
    [] test = "has" -> LikeHas(g, against, value)
    [] test = "lacks" -> ~LikeHas(g, against, value)

\* a loop of the set algebra, `for (const value of like.keys()) if (test)
\* result.add(value)`, resumed after pos elements: keys() of an
\* IterableWeakSet is its values(), which evicts from #set the WeakRefs that
\* no longer resolve; keys() of a Set or a Map walks its members
RECURSIVE KeysLoop(_, _, _, _, _)
KeysLoop(g, like, pos, test, against) ==
  IF g.ret = "TypeError" THEN g
  ELSE IF KeysThrows(like) THEN [g EXCEPT !.ret = "TypeError"]
  ELSE IF like.type = "IterableWeakSet"
    THEN LET r == SetValuesLoop(g.set[like.inst], pos)
             g1 == [g EXCEPT !.set[like.inst] = r.set]
         IN  IF r.done THEN g1
             ELSE IF TestThrows(test, against)
                    THEN [g1 EXCEPT !.ret = "TypeError"]
             ELSE KeysLoop(IF Keep(g1, test, against, r.key)
                             THEN CallSetAdd(g1, g.new, r.key) ELSE g1,
                           like, r.pos, test, against)
    ELSE IF pos >= Len(like.seq) THEN g
         ELSE IF TestThrows(test, against)
                THEN [g EXCEPT !.ret = "TypeError"]
         ELSE KeysLoop(IF Keep(g, test, against, like.seq[pos + 1])
                         THEN CallSetAdd(g, g.new, like.seq[pos + 1])
                         ELSE g,
                       like, pos + 1, test, against)

\* a faulty union: its second loop adds the members of other to this
UnionFrom_IntoThis(g, i, other) ==
  [KeysLoop([KeysLoop(g, WeakSetLike(i), 0, "all", other) EXCEPT !.new = i],
            other, 0, "all", WeakSetLike(i)) EXCEPT !.new = g.new]

\* a faulty union: it adds the members of other before those of this
UnionFrom_OtherFirst(g, i, other) ==
  KeysLoop(KeysLoop(g, other, 0, "all", WeakSetLike(i)),
           WeakSetLike(i), 0, "all", other)

\* IterableWeakSet.prototype.union, from call state g
UnionFrom(g, i, other) ==
  KeysLoop(KeysLoop(g, WeakSetLike(i), 0, "all", other),
           other, 0, "all", WeakSetLike(i))

UnionBody(i, other) == UnionFrom(CallState, i, other)

\* a faulty intersection: it tests `this.has(value)`
IntersectionFrom_TestsThis(g, i, other) ==
  KeysLoop(g, WeakSetLike(i), 0, "has", WeakSetLike(i))

\* IterableWeakSet.prototype.intersection, from call state g
IntersectionFrom(g, i, other) ==
  KeysLoop(g, WeakSetLike(i), 0, "has", other)

IntersectionBody(i, other) == IntersectionFrom(CallState, i, other)

\* a faulty difference: it tests `other.has(value)`
DifferenceFrom_TestsHas(g, i, other) ==
  KeysLoop(g, WeakSetLike(i), 0, "has", other)

\* IterableWeakSet.prototype.difference, from call state g
DifferenceFrom(g, i, other) ==
  KeysLoop(g, WeakSetLike(i), 0, "lacks", other)

DifferenceBody(i, other) == DifferenceFrom(CallState, i, other)

\* IterableWeakSet.prototype.symmetricDifference, from call state g
SymmetricDifferenceFrom(g, i, other) ==
  KeysLoop(KeysLoop(g, WeakSetLike(i), 0, "lacks", other),
           other, 0, "lacks", WeakSetLike(i))

\* a faulty symmetricDifference: it lacks the loop over other.keys()
SymmetricDifferenceBody_OneLoop(i, other) ==
  KeysLoop(CallState, WeakSetLike(i), 0, "lacks", other)

SymmetricDifferenceBody(i, other) ==
  SymmetricDifferenceFrom(CallState, i, other)

\* a loop of a predicate of the set algebra, `for (let value of
\* like.keys()) if (test) return false`, resumed after pos elements, and
\* the `return true` after it: the call state it leaves, with what the
\* predicate returns in `ret`
RECURSIVE PredLoop(_, _, _, _, _)
PredLoop(g, like, pos, test, against) ==
  IF KeysThrows(like) THEN [g EXCEPT !.ret = "TypeError"]
  ELSE IF like.type = "IterableWeakSet"
    THEN LET r == SetValuesLoop(g.set[like.inst], pos)
             g1 == [g EXCEPT !.set[like.inst] = r.set]
         IN  IF r.done THEN [g1 EXCEPT !.ret = "true"]
             ELSE IF TestThrows(test, against)
                    THEN [g1 EXCEPT !.ret = "TypeError"]
             ELSE IF Keep(g1, test, against, r.key)
                    THEN [g1 EXCEPT !.ret = "false"]
                    ELSE PredLoop(g1, like, r.pos, test, against)
    ELSE IF pos >= Len(like.seq) THEN [g EXCEPT !.ret = "true"]
         ELSE IF TestThrows(test, against)
                THEN [g EXCEPT !.ret = "TypeError"]
         ELSE IF Keep(g, test, against, like.seq[pos + 1])
                THEN [g EXCEPT !.ret = "false"]
                ELSE PredLoop(g, like, pos + 1, test, against)

\* a faulty isSubsetOf: it walks other.keys() as isSupersetOf does
IsSubsetOfFrom_WalksOther(g, i, other) ==
  PredLoop(g, other, 0, "lacks", WeakSetLike(i))

\* IterableWeakSet.prototype.isSubsetOf, from call state g
IsSubsetOfFrom(g, i, other) ==
  PredLoop(g, WeakSetLike(i), 0, "lacks", other)

IsSubsetOfBody(i, other) == IsSubsetOfFrom(CallState, i, other)

\* a faulty isSupersetOf: it walks this.keys() as isSubsetOf does
IsSupersetOfFrom_WalksThis(g, i, other) ==
  PredLoop(g, WeakSetLike(i), 0, "lacks", other)

\* IterableWeakSet.prototype.isSupersetOf, from call state g
IsSupersetOfFrom(g, i, other) ==
  PredLoop(g, other, 0, "lacks", WeakSetLike(i))

IsSupersetOfBody(i, other) == IsSupersetOfFrom(CallState, i, other)

\* a faulty isDisjointFrom: it tests `!other.has(value)`
IsDisjointFromFrom_TestsLacks(g, i, other) ==
  PredLoop(g, WeakSetLike(i), 0, "lacks", other)

\* IterableWeakSet.prototype.isDisjointFrom, from call state g
IsDisjointFromFrom(g, i, other) ==
  PredLoop(g, WeakSetLike(i), 0, "has", other)

IsDisjointFromBody(i, other) == IsDisjointFromFrom(CallState, i, other)

\* the record of a call of the set algebra that has returned: the operands,
\* and the #map and #set of the container it returned
AlgebraCall(i, op, other, g) ==
  [inst |-> i, op |-> op, ret |-> g.ret, key |-> Undefined,
   value |-> Undefined, n |-> 0, other |-> other,
   result |-> [map |-> g.map[g.new], set |-> g.set[g.new]]]

\* what a call of the set algebra that ended in call state g leaves
AlgebraEnd(i, op, other, g) ==
  /\ i \in insts
  /\ registry' = g.registry
  /\ map' = [j \in Insts |-> g.map[j]]
  /\ set' = [j \in Insts |-> g.set[j]]
  /\ walk' = IF walk.active
               THEN [walk EXCEPT !.pos = PosAfter(set[walk.inst],
                                                  g.set[walk.inst], walk.pos)]
               ELSE walk
  /\ last' = AlgebraCall(i, op, other, g)
  /\ UNCHANGED <<kind, insts, objState, hist>>

SetUnion(i, other) ==
  /\ kind = "set"
  /\ AlgebraEnd(i, "union", other, UnionBody(i, other))

SetIntersection(i, other) ==
  /\ kind = "set"
  /\ AlgebraEnd(i, "intersection", other, IntersectionBody(i, other))

SetDifference(i, other) ==
  /\ kind = "set"
  /\ AlgebraEnd(i, "difference", other, DifferenceBody(i, other))

SetSymmetricDifference(i, other) ==
  /\ kind = "set"
  /\ AlgebraEnd(i, "symmetricDifference", other,
                SymmetricDifferenceBody(i, other))

SetIsSubsetOf(i, other) ==
  /\ kind = "set"
  /\ AlgebraEnd(i, "isSubsetOf", other, IsSubsetOfBody(i, other))

SetIsSupersetOf(i, other) ==
  /\ kind = "set"
  /\ AlgebraEnd(i, "isSupersetOf", other, IsSupersetOfBody(i, other))

SetIsDisjointFrom(i, other) ==
  /\ kind = "set"
  /\ AlgebraEnd(i, "isDisjointFrom", other, IsDisjointFromBody(i, other))

\* ------------------------------------------------------------------------
\* Scripts: several calls of the set algebra that the application makes one
\* after the other in one synchronous job, so that the host reclaims nothing
\* in between.  Each script is one step; call k of a script constructs
\* instance NewInst + k - 1
\* ------------------------------------------------------------------------

\* the getter size of instance i during a script: the call state it leaves
\* (it evicts the WeakRefs that no longer resolve) and the count
CallSetSize(g, i) ==
  LET r == SetSizeLoop(g.set[i], 0, 0)
  IN  [g |-> [g EXCEPT !.set[i] = r.set], n |-> r.n]

\* the objects for which has of instance i is true during a script
CallMembers(g, i) == {k \in Objects : CallSetHas(g, i, k)}

\* the record of a script that has run: what it observed
ScriptCall(i, op, other, obs) ==
  [inst |-> i, op |-> op, ret |-> Undefined, key |-> Undefined,
   value |-> Undefined, n |-> 0, other |-> other, obs |-> obs]

\* what a script that ended in call state g leaves
ScriptEnd(i, op, other, g, obs) ==
  /\ kind = "set"
  /\ registry' = g.registry
  /\ map' = [j \in Insts |-> g.map[j]]
  /\ set' = [j \in Insts |-> g.set[j]]
  /\ walk' = IF walk.active
               THEN [walk EXCEPT !.pos = PosAfter(set[walk.inst],
                                                  g.set[walk.inst], walk.pos)]
               ELSE walk
  /\ last' = ScriptCall(i, op, other, obs)
  /\ UNCHANGED <<kind, insts, objState, hist>>

\* `[A.union(B).size, A.size, B.size, A.intersection(B).size]`
SetUnionSizes(a, b) ==
  LET B == WeakSetLike(b)
      g1 == UnionFrom(CallState, a, B)
      u == CallSetSize(g1, NewInst)
      sa == CallSetSize(u.g, a)
      sb == CallSetSize(sa.g, b)
      g2 == IntersectionFrom([sb.g EXCEPT !.new = NewInst + 1], a, B)
      n == CallSetSize(g2, NewInst + 1)
  IN  ScriptEnd(a, "unionSizes", B, n.g,
                [union |-> u.n, a |-> sa.n, b |-> sb.n, intersection |-> n.n])

\* `D1 = A.difference(B); D2 = B.difference(A); D1.isDisjointFrom(D2);
\* U = D1.union(D2); S = A.symmetricDifference(B)`, and the members of D1,
\* D2, U and S
SetDifferences(a, b) ==
  LET d1 == NewInst
      d2 == NewInst + 1
      u == NewInst + 2
      sd == NewInst + 3
      g1 == DifferenceFrom(CallState, a, WeakSetLike(b))
      g2 == DifferenceFrom([g1 EXCEPT !.new = d2], b, WeakSetLike(a))
      g3 == IsDisjointFromFrom(g2, d1, WeakSetLike(d2))
      g4 == UnionFrom([g3 EXCEPT !.new = u], d1, WeakSetLike(d2))
      g5 == SymmetricDifferenceFrom([g4 EXCEPT !.new = sd], a,
                                    WeakSetLike(b))
  IN  ScriptEnd(a, "differences", WeakSetLike(b), g5,
                [d1 |-> CallMembers(g5, d1), d2 |-> CallMembers(g5, d2),
                 disjoint |-> g3.ret, union |-> CallMembers(g5, u),
                 symmetricDifference |-> CallMembers(g5, sd),
                 a |-> CallMembers(g5, a), b |-> CallMembers(g5, b)])

\* `[A.isSubsetOf(B), B.isSupersetOf(A), A.isSupersetOf(B),
\* A.isDisjointFrom(B)]`, and the members of A and B
SetPredicates(a, b) ==
  LET g1 == IsSubsetOfFrom(CallState, a, WeakSetLike(b))
      g2 == IsSupersetOfFrom(g1, b, WeakSetLike(a))
      g3 == IsSupersetOfFrom(g2, a, WeakSetLike(b))
      g4 == IsDisjointFromFrom(g3, a, WeakSetLike(b))
  IN  ScriptEnd(a, "predicates", WeakSetLike(b), g4,
                [subset |-> g1.ret, inverse |-> g2.ret, superset |-> g3.ret,
                 disjoint |-> g4.ret,
                 a |-> CallMembers(g4, a), b |-> CallMembers(g4, b)])

\* ------------------------------------------------------------------------
\* The constructors with an argument, and the same entries passed one by one
\* to set or add of a container constructed with no argument
\* ------------------------------------------------------------------------

\* what the application may pass to the constructor: nothing, null, or an
\* array in which a key may be listed more than once; the members of the
\* array are entries <<key, value>> for the map and objects for the set
ConstructorArgs ==
  {[arg |-> a, seq |-> <<>>] : a \in {"undefined", "null"}}
    \cup {[arg |-> "iterable", seq |-> q] :
            q \in SeqsUpTo(IF kind = "map" THEN Objects \X Values
                           ELSE Objects, MaxItems)}

\* `entries ?? []`, `values ?? []`
OrEmpty(a) == IF a.arg = "iterable" THEN a.seq ELSE <<>>

\* a faulty loop: it skips an entry whose key the map already has
RECURSIVE MapConstructLoop_KeepsFirst(_, _, _, _)
MapConstructLoop_KeepsFirst(st, i, entries, pos) ==
  IF pos >= Len(entries) \/ st.ret = "TypeError" THEN st
  ELSE LET k == entries[pos + 1][1]
           v == entries[pos + 1][2]
       IN  MapConstructLoop_KeepsFirst(
             IF k \in DOMAIN st.map /\ Deref(st.map[k].k) = k THEN st
             ELSE StMapSet(st, i, k, v), i, entries, pos + 1)

\* the constructor's loop `for (const [k, v] of entries ?? []) this.set(k, v)`
\* of instance i, resumed at pos
RECURSIVE MapConstructLoop(_, _, _, _)
MapConstructLoop(st, i, entries, pos) ==
  IF pos >= Len(entries) \/ st.ret = "TypeError" THEN st
  ELSE LET k == entries[pos + 1][1]
           v == entries[pos + 1][2]
       IN  MapConstructLoop(StMapSet(st, i, k, v), i, entries, pos + 1)

\* what the two constructor calls leave in `last`: the argument of the first
\* and the number of its entries that the application has since passed to
\* set or add of the second
Built(ret, a, done) ==
  [inst |-> 1, op |-> "new", ret |-> ret, key |-> Undefined,
   value |-> Undefined, n |-> 0, arg |-> a, done |-> done]

\* `new IterableWeakMap(entries)` as instance 1, then `new IterableWeakMap()`
\* as instance 2
MapNew(a) ==
  /\ kind = "map" /\ insts = {} /\ last = NoCall
  /\ LET st == MapConstructLoop(
                 [registry |-> registry, map |-> map[1], set |-> set[1],
                  ret |-> "this"], 1, OrEmpty(a), 0)
     IN  /\ registry' = st.registry
         /\ map' = [map EXCEPT ![1] = st.map]
         /\ set' = [set EXCEPT ![1] = st.set]
         /\ last' = Built(IF st.ret = "TypeError" THEN "TypeError" ELSE "map",
                          a, 0)
  /\ insts' = {1, 2}
  /\ UNCHANGED <<kind, objState, walk, hist>>

\* `new IterableWeakSet(values)` as instance 1, then `new IterableWeakSet()`
\* as instance 2
SetNew(a) ==
  /\ kind = "set" /\ insts = {} /\ last = NoCall
  /\ LET g == Construct(CallState, 1, OrEmpty(a), 0)
     IN  /\ registry' = g.registry
         /\ map' = [j \in Insts |-> g.map[j]]
         /\ set' = [j \in Insts |-> g.set[j]]
         /\ last' = Built(g.ret, a, 0)
  /\ insts' = {1, 2}
  /\ UNCHANGED <<kind, objState, walk, hist>>

\* the application passes the next entry of the array to set of instance 2:
\* IterableWeakMap.prototype.set
MapSetNext ==
  /\ kind = "map" /\ last.op = "new" /\ last.done < Len(OrEmpty(last.arg))
  /\ LET entry == OrEmpty(last.arg)[last.done + 1]
         r == MapSetBody(2, entry[1], entry[2])
     IN  /\ registry' = r.registry
         /\ map' = [map EXCEPT ![2] = r.map]
         /\ set' = [set EXCEPT ![2] = r.set]
         /\ last' = Built(last.ret, last.arg, last.done + 1)
  /\ UNCHANGED <<kind, insts, objState, walk, hist>>

\* the application passes the next member of the array to add of instance 2:
\* IterableWeakSet.prototype.add
SetAddNext ==
  /\ kind = "set" /\ last.op = "new" /\ last.done < Len(OrEmpty(last.arg))
  /\ LET r == SetAddBody(2, OrEmpty(last.arg)[last.done + 1])
     IN  /\ registry' = r.registry
         /\ map' = [map EXCEPT ![2] = r.map]
         /\ set' = [set EXCEPT ![2] = r.set]
         /\ last' = Built(last.ret, last.arg, last.done + 1)
  /\ UNCHANGED <<kind, insts, objState, walk, hist>>

\* ------------------------------------------------------------------------
\* A walk whose body deletes: forEach with a callback that calls delete, or
\* a for-of loop over the container whose body calls delete.  The walk is
\* synchronous and runs to its end in one step over the structures w of the
\* instance: the registry, #map, #set, the number of elements of #set that
\* the iterator has passed, and what the walk has observed so far
\* ------------------------------------------------------------------------

\* what the body does with the entry it is handed: for each key of `live`,
\* the keys of the container, the keys that it passes to delete
Plans(live) == [live -> SUBSET live]

\* #map m and #set s agree on the live entries
Agree(m, s) ==
  /\ \A r \in Range(s) :
       Deref(r) # Undefined => (Deref(r) \in DOMAIN m /\ m[Deref(r)].k = r)
  /\ \A o \in DOMAIN m :
       objState[o] # "reclaimed" => m[o].k \in Range(s)

\* IterableWeakMap.prototype.delete on the structures w
WalkMapDelete(w, key) ==
  LET k == WeakMapGet(w.map, key).k
  IN  IF Deref(k) = key /\ CanBeHeldWeakly(key)
        THEN [w EXCEPT !.registry = RegistryUnregister(w.registry, key),
                       !.map = WeakMapDelete(w.map, key),
                       !.set = JsSetDelete(w.set, k)]
        ELSE w

\* IterableWeakSet.prototype.delete on the structures w
WalkSetDelete(w, value) ==
  LET r == SetDeleteBody(w.registry, w.map, w.set, value)
  IN  [w EXCEPT !.registry = r.registry, !.map = r.map, !.set = r.set]

\* the body calls delete for each of `keys`, one after the other
RECURSIVE WalkDeleteAll(_, _)
WalkDeleteAll(w, keys) ==
  IF keys = {} THEN w
  ELSE LET key == CHOOSE k \in keys : TRUE
       IN  WalkDeleteAll(IF kind = "map" THEN WalkMapDelete(w, key)
                         ELSE WalkSetDelete(w, key), keys \ {key})

\* the generator of the walk, run to its next yield or to its end: entries
\* of the map, which leaves #set alone, or values of the set
WalkLoop(w) ==
  IF kind = "map"
    THEN LET r == MapEntriesLoop(w.set, w.map, w.pos)
         IN  [done |-> r.done, pos |-> r.pos, key |-> r.key, set |-> w.set]
    ELSE SetValuesLoop(w.set, w.pos)

\* the keys of the live entries of the structures w
WalkLive(w) ==
  {o \in DOMAIN w.map : Deref(w.map[o].k) = o /\ w.map[o].k \in Range(w.set)}

\* the keys that a walk from the structures w on yields when its body
\* calls nothing: `[...this]`
RECURSIVE WalkKeys(_)
WalkKeys(w) ==
  LET r == WalkLoop(w)
  IN  IF r.done THEN <<>>
      ELSE <<r.key>> \o WalkKeys([w EXCEPT !.set = r.set, !.pos = r.pos])

\* a faulty walk: it walks a copy of the entries made at the start,
\* `for (const [key, value] of [...this])`
RECURSIVE DeletingWalk_OverCopy(_, _, _)
DeletingWalk_OverCopy(w, plan, todo) ==
  IF todo = <<>> THEN [w EXCEPT !.agree = @ /\ Agree(w.map, w.set)]
  ELSE LET key == Head(todo)
           keys == {k \in plan[key] : objState[k] = "held" \/ k = key
                                        \/ k \in Range(w.visited)}
           w2 == WalkDeleteAll(w, keys)
       IN  DeletingWalk_OverCopy(
             [w2 EXCEPT !.visited = Append(w.visited, key),
                        !.agree = w.agree /\ Agree(w.map, w.set),
                        !.gone = w.gone \cup
                                   ((keys \cap WalkLive(w))
                                      \ (Range(w.visited) \cup {key}))],
             plan, Tail(todo))

\* the walk from the structures w on: each turn runs the generator to its
\* next yield and calls the body, which deletes the keys of its plan that
\* the application holds (it holds the keys that it was handed); `todo` is
\* not read
RECURSIVE DeletingWalk(_, _, _)
DeletingWalk(w, plan, todo) ==
  LET r == WalkLoop(w)
  IN  IF r.done
        THEN [w EXCEPT !.set = r.set, !.agree = @ /\ Agree(w.map, r.set)]
        ELSE LET w1 == [w EXCEPT !.set = r.set]
                 keys == {k \in plan[r.key] :
                            objState[k] = "held" \/ k = r.key
                              \/ k \in Range(w.visited)}
                 w2 == WalkDeleteAll(w1, keys)
             IN  DeletingWalk(
                   [w2 EXCEPT
                      !.pos = PosAfter(w1.set, w2.set, r.pos),
                      !.visited = Append(w.visited, r.key),
                      !.agree = w.agree /\ Agree(w1.map, w1.set),
                      !.gone = w.gone \cup
                                 ((keys \cap WalkLive(w1))
                                    \ (Range(w.visited) \cup {r.key}))],
                   plan, todo)

\* the keys of the live entries of instance i
LiveKeys(i) ==
  WalkLive([map |-> map[i], set |-> set[i]])

\* forEach of instance i with a callback that deletes by `plan` (or the
\* for-of loop with such a body): what the walk leaves, and in `obs` the
\* keys of the live entries at the start, the keys it visited in order, the
\* keys whose entries the body deleted before the walk reached them, and
\* whether #map and #set agreed at every call of the body and at the end
WalkDeleting(i, plan) ==
  /\ i \in insts /\ set[i] # <<>>
  /\ LET w0 == [registry |-> registry, map |-> map[i], set |-> set[i],
                pos |-> 0, visited |-> <<>>, gone |-> {}, agree |-> TRUE]
         w == DeletingWalk(w0, plan, WalkKeys(w0))
     IN  /\ registry' = w.registry
         /\ map' = [map EXCEPT ![i] = w.map]
         /\ set' = [set EXCEPT ![i] = w.set]
         /\ objState' = [o \in Objects |->
                           IF o \in Range(w.visited) THEN "held"
                           ELSE objState[o]]
         /\ last' = [inst |-> i, op |-> "walk", ret |-> Undefined,
                     key |-> Undefined, value |-> Undefined, n |-> 0,
                     obs |-> [start |-> WalkLive(w0), visited |-> w.visited,
                              gone |-> w.gone, agree |-> w.agree]]
  /\ UNCHANGED <<kind, insts, walk, hist>>

\* ------------------------------------------------------------------------
\* Specification
\* ------------------------------------------------------------------------

InitCommon ==
  /\ kind \in {"map", "set"}
  /\ objState = [o \in Objects |-> "held"]
  /\ map = [i \in Insts |-> [o \in {} |-> NoPayload]]
  /\ set = [i \in Insts |-> <<>>]
  /\ registry = [c \in {} |-> 0]
  /\ walk = Idle
  /\ last = NoCall

\* the application constructed one container, with no argument
Init == InitCommon /\ insts = {1} /\ hist = NoHist

Next ==
  \/ \E o \in Objects : Drop(o)
  \/ \E o \in Objects : Reclaim(o)
  \/ \E i \in insts, key \in Keys : MapGet(i, key)
  \/ \E i \in insts, key \in Keys : MapHas(i, key)
  \/ \E i \in insts, key \in Keys, value \in Values : MapSet(i, key, value)
  \/ \E i \in insts, key \in Keys : MapDelete(i, key)
  \/ \E i \in insts : MapSize(i)
  \/ \E i \in insts : MapClear(i)
  \/ \E i \in insts : MapEntries(i)
  \/ \E i \in insts : MapEntriesNext(i)
  \/ \E cell \in DOMAIN registry : MapFire(cell)
  \/ \E i \in insts, value \in Keys : SetHas(i, value)
  \/ \E i \in insts, value \in Keys : SetAdd(i, value)
  \/ \E i \in insts, value \in Keys : SetDelete(i, value)
  \/ \E i \in insts : SetSize(i)
  \/ \E i \in insts : SetClear(i)
  \/ \E i \in insts : SetValues(i)
  \/ \E i \in insts : SetValuesNext(i)
  \/ \E cell \in DOMAIN registry : SetFire(cell)

Spec == Init /\ [][Next]_vars

\* the host reclaims, sooner or later, every object that stays dropped
FairSpec == Spec /\ \A o \in Objects : WF_vars(Reclaim(o))

\* the application records what its walks yield, as the tests do
RecordingInit == InitCommon /\ insts = {1} /\ hist = Dirty

RecordingSpec == RecordingInit /\ [][Next]_vars

\* the application has constructed nothing, and calls groupBy
GroupByInit == InitCommon /\ kind = "map" /\ insts = {} /\ hist = NoHist

GroupByNext ==
  \E items \in ItemsArgs, keySelector \in KeySelectors :
    GroupBy(items, keySelector)

GroupBySpec == GroupByInit /\ [][GroupByNext]_vars

\* the methods of the set algebra that return a container
AlgebraOps == {"union", "intersection", "difference", "symmetricDifference"}

\* the methods of the set algebra that return a boolean
AlgebraPreds == {"isSubsetOf", "isSupersetOf", "isDisjointFrom"}

\* no call of the set algebra has returned yet
Building == last.op \notin AlgebraOps \cup AlgebraPreds

\* the application has constructed nothing yet
AlgebraInit == InitCommon /\ kind = "set" /\ insts = {} /\ hist = NoHist

\* the application constructs two IterableWeakSets, drops objects, which the
\* host reclaims, and then makes one call of the set algebra on its first
\* container
AlgebraNext ==
  \/ Building /\ \E o \in Objects : Drop(o)
  \/ Building /\ \E o \in Objects : Reclaim(o)
  \/ Building /\ \E i \in Insts, values \in DistinctSeqs(Objects) :
                   SetConstruct(i, values)
  \/ Building /\ \E other \in OtherArgs : SetUnion(1, other)
  \/ Building /\ \E other \in OtherArgs : SetIntersection(1, other)
  \/ Building /\ \E other \in OtherArgs : SetDifference(1, other)
  \/ Building /\ \E other \in OtherArgs : SetSymmetricDifference(1, other)
  \/ Building /\ \E other \in OtherArgs : SetIsSubsetOf(1, other)
  \/ Building /\ \E other \in OtherArgs : SetIsSupersetOf(1, other)
  \/ Building /\ \E other \in OtherArgs : SetIsDisjointFrom(1, other)

AlgebraSpec == AlgebraInit /\ [][AlgebraNext]_vars

\* the scripts of the application
ScriptOps == {"unionSizes", "differences", "predicates"}

\* no script has run yet
Unscripted == last.op \notin ScriptOps

\* the application constructs two IterableWeakSets, drops objects, which the
\* host reclaims, and then runs one script on its containers
LawNext ==
  \/ Unscripted /\ \E o \in Objects : Drop(o)
  \/ Unscripted /\ \E o \in Objects : Reclaim(o)
  \/ Unscripted /\ \E i \in Insts, values \in DistinctSeqs(Objects) :
                     SetConstruct(i, values)
  \/ Unscripted /\ \E a, b \in insts : SetUnionSizes(a, b)
  \/ Unscripted /\ \E a, b \in insts : SetDifferences(a, b)
  \/ Unscripted /\ \E a, b \in insts : SetPredicates(a, b)

LawSpec == AlgebraInit /\ [][LawNext]_vars

\* the application constructs IterableWeakSets, drops objects, which the
\* host reclaims, and then makes one call of the set algebra on its first
\* container with an `other` that is no set-like
ShapeNext ==
  \/ Building /\ \E o \in Objects : Drop(o)
  \/ Building /\ \E o \in Objects : Reclaim(o)
  \/ Building /\ \E i \in Insts, values \in DistinctSeqs(Objects) :
                   SetConstruct(i, values)
  \/ Building /\ \E other \in NotSetLikeArgs : SetUnion(1, other)
  \/ Building /\ \E other \in NotSetLikeArgs : SetIntersection(1, other)
  \/ Building /\ \E other \in NotSetLikeArgs : SetDifference(1, other)
  \/ Building /\ \E other \in NotSetLikeArgs :
                   SetSymmetricDifference(1, other)
  \/ Building /\ \E other \in NotSetLikeArgs : SetIsSubsetOf(1, other)
  \/ Building /\ \E other \in NotSetLikeArgs : SetIsSupersetOf(1, other)
  \/ Building /\ \E other \in NotSetLikeArgs : SetIsDisjointFrom(1, other)

ShapeSpec == AlgebraInit /\ [][ShapeNext]_vars

\* the application constructs a container from an array, and a second one
\* with no argument to which it passes the entries of the array one by one
ConstructInit == InitCommon /\ insts = {} /\ hist = NoHist

ConstructNext ==
  \/ insts = {} /\ \E a \in ConstructorArgs : MapNew(a)
  \/ insts = {} /\ \E a \in ConstructorArgs : SetNew(a)
  \/ MapSetNext
  \/ SetAddNext

ConstructSpec == ConstructInit /\ [][ConstructNext]_vars

\* the application constructed one container, with no argument, and calls
\* set or add, delete, clear and the set's size on it while the host
\* reclaims what it drops and calls the finalizers
TeardownInit == InitCommon /\ insts = {1} /\ hist = NoHist

TeardownNext ==
  \/ \E o \in Objects : Drop(o)
  \/ \E o \in Objects : Reclaim(o)
  \/ \E i \in insts, key \in Keys, value \in Values : MapSet(i, key, value)
  \/ \E i \in insts, key \in Keys : MapDelete(i, key)
  \/ \E i \in insts : MapClear(i)
  \/ \E cell \in DOMAIN registry : MapFire(cell)
  \/ \E i \in insts, value \in Keys : SetAdd(i, value)
  \/ \E i \in insts, value \in Keys : SetDelete(i, value)
  \/ \E i \in insts : SetSize(i)
  \/ \E i \in insts : SetClear(i)
  \/ \E cell \in DOMAIN registry : SetFire(cell)

TeardownSpec == TeardownInit /\ [][TeardownNext]_vars

\* the application constructed two containers of one class, which share the
\* static registry of the class, and calls set or add, delete and clear on
\* both while the host reclaims what it drops and calls the finalizers; it
\* stores one value
SharedInit == InitCommon /\ insts = {1, 2} /\ hist = NoHist

SharedNext ==
  \/ \E o \in Objects : Drop(o)
  \/ \E o \in Objects : Reclaim(o)
  \/ \E i \in insts, key \in Objects : MapSet(i, key, ValNames[1])
  \/ \E i \in insts, key \in Objects : MapDelete(i, key)
  \/ \E i \in insts : MapClear(i)
  \/ \E cell \in DOMAIN registry : MapFire(cell)
  \/ \E i \in insts, value \in Objects : SetAdd(i, value)
  \/ \E i \in insts, value \in Objects : SetDelete(i, value)
  \/ \E i \in insts : SetClear(i)
  \/ \E cell \in DOMAIN registry : SetFire(cell)

SharedSpec == SharedInit /\ [][SharedNext]_vars

\* the application fills one container with keys that the container lacks
\* and walks it with a body that deletes, while the host reclaims what the
\* application drops
WalkInit == InitCommon /\ insts = {1} /\ hist = NoHist

WalkNext ==
  \/ \E o \in Objects : Drop(o)
  \/ \E o \in Objects : Reclaim(o)
  \/ \E i \in insts, key \in Objects :
       key \notin DOMAIN map[i] /\ MapSet(i, key, ValNames[1])
  \/ \E i \in insts, value \in Objects :
       value \notin DOMAIN map[i] /\ SetAdd(i, value)
  \/ \E i \in insts :
       kind = "map" /\ \E plan \in Plans(LiveKeys(i)) : WalkDeleting(i, plan)
  \/ \E i \in insts :
       kind = "set" /\ \E plan \in Plans(LiveKeys(i)) : WalkDeleting(i, plan)

WalkSpec == WalkInit /\ [][WalkNext]_vars

\* the application fills one IterableWeakMap and deletes from it or, with
\* IterableWeakSets, fills two, deletes from its first and makes one call of
\* union on its first, while the host reclaims what the application drops
\* what that application passes as `other`: one of its IterableWeakSets or,
\* while its second is empty, a native Set or Map
OrderArgs ==
  {other \in OtherArgs : other.type = "IterableWeakSet" \/ set[2] = <<>>}

OrderInit ==
  /\ InitCommon /\ hist = NoHist
  /\ insts = IF kind = "map" THEN {1} ELSE {1, 2}

OrderNext ==
  \/ Building /\ \E o \in Objects : Drop(o)
  \/ Building /\ \E o \in Objects : Reclaim(o)
  \/ Building /\ \E i \in insts, key \in Objects :
                   MapSet(i, key, ValNames[1])
  \/ Building /\ \E i \in insts, key \in Objects : MapDelete(i, key)
  \/ Building /\ \E i \in insts, value \in Objects :
                   value \notin DOMAIN map[i] /\ SetAdd(i, value)
  \/ Building /\ \E value \in Objects : SetDelete(1, value)
  \/ Building /\ \E other \in OrderArgs : SetUnion(1, other)

OrderSpec == OrderInit /\ [][OrderNext]_vars

\* ------------------------------------------------------------------------
\* The inspection hook, [Symbol.for("nodejs.util.inspect.custom")]
\* ------------------------------------------------------------------------

\* the receiver of a call on the class's prototype object, which has no
\* #map and no #set
Prototype == 0

\* the `depth` that the inspector passes: null, or a number
Depths ==
  {[null |-> TRUE, n |-> 0]} \cup {[null |-> FALSE, n |-> d] : d \in -1..2}

\* the `options` that the inspector passes: none, or an object with or
\* without `colors` and with or without a function `stylize`
InspectOptions ==
  {[given |-> FALSE, colors |-> FALSE, stylize |-> FALSE]}
    \cup [given : {TRUE}, colors : BOOLEAN, stylize : BOOLEAN]

\* how the text is styled under `options`
Styled(options) ==
  IF ~(options.given /\ options.colors) THEN "plain"
  ELSE IF options.stylize THEN "stylize" ELSE "ansi"

\* the hook called on `this` with depth and options: the text it returns
\* ("tag" for `[Name]`, "preview" for `Name(n) { <items hidden> }`), how the
\* text is styled, the `this.size` it read, the #set it leaves and the
\* WeakRefs on which it called deref
InspectBody(this, depth, options) ==
  IF this = Prototype
    THEN [text |-> "tag", style |-> "plain", n |-> 0, set |-> <<>>,
          resolved |-> {}]
  ELSE IF ~depth.null /\ depth.n <= 0
    THEN [text |-> "tag", style |-> Styled(options), n |-> 0,
          set |-> set[this], resolved |-> {}]
  ELSE IF kind = "map"
    THEN [text |-> "preview", style |-> Styled(options),
          n |-> MapSizeLoop(set[this], 1, 0), set |-> set[this],
          resolved |-> Range(set[this])]
  ELSE LET r == SetSizeLoop(set[this], 0, 0)
       IN  [text |-> "preview", style |-> Styled(options), n |-> r.n,
            set |-> r.set, resolved |-> Range(set[this])]

\* the application, or its runtime's inspector, calls the hook
Inspect(this, depth, options) ==
  /\ this \in insts \cup {Prototype}
  /\ LET r == InspectBody(this, depth, options)
     IN  /\ set' = IF this = Prototype THEN set
                   ELSE [set EXCEPT ![this] = r.set]
         /\ walk' = IF this = Prototype THEN walk
                    ELSE WalkFix(this, set[this], r.set)
         /\ last' = [inst |-> this, op |-> "inspect", ret |-> "string",
                     key |-> Undefined, value |-> Undefined, n |-> r.n,
                     obs |-> [text |-> r.text, style |-> r.style,
                              resolved |-> r.resolved, depth |-> depth]]
  /\ UNCHANGED <<kind, insts, objState, map, registry, hist>>

\* the application fills one container with keys that the container lacks
\* and inspects it, or the prototype of its class, while the host reclaims
\* what the application drops
InspectInit == InitCommon /\ insts = {1} /\ hist = NoHist

InspectNext ==
  \/ \E o \in Objects : Drop(o)
  \/ \E o \in Objects : Reclaim(o)
  \/ \E i \in insts, key \in Objects :
       key \notin DOMAIN map[i] /\ MapSet(i, key, ValNames[1])
  \/ \E i \in insts, value \in Objects :
       value \notin DOMAIN map[i] /\ SetAdd(i, value)
  \/ \E this \in insts \cup {Prototype}, depth \in Depths,
        options \in InspectOptions : Inspect(this, depth, options)

InspectSpec == InspectInit /\ [][InspectNext]_vars

\* the application also calls forEach; what it does while a forEach is
\* running, it does from inside the callback
ForEachNext ==
  \/ Next
  \/ \E i \in insts, callback \in Callbacks, thisArg \in ThisArgs :
       MapForEach(i, callback, thisArg)
  \/ \E i \in insts : MapForEachStep(i)
  \/ \E i \in insts, callback \in Callbacks, thisArg \in ThisArgs :
       SetForEach(i, callback, thisArg)
  \/ \E i \in insts : SetForEachStep(i)

ForEachSpec == Init /\ [][ForEachNext]_vars

\* the loop of forEach goes on as long as the callback returns
FairForEachSpec ==
  ForEachSpec
    /\ WF_vars(\E i \in insts : MapForEachStep(i) \/ SetForEachStep(i))

\* ------------------------------------------------------------------------
\* What the application would observe in the current state
\* ------------------------------------------------------------------------

\* has(key) of instance i
Has(i, key) ==
  IF kind = "map" THEN MapHasResult(i, key) = "true"
  ELSE SetHasResult(i, key) = "true"

\* the number that the getter size of instance i would return
SizeResult(i) ==
  IF kind = "map" THEN MapSizeLoop(set[i], 1, 0)
  ELSE SetSizeLoop(set[i], 0, 0).n

\* the keys a complete walk of instance i would yield, run to its end with
\* no other step in between, from an iterator that has passed `pos` elements
RECURSIVE MapWalkFrom(_, _)
MapWalkFrom(i, pos) ==
  LET r == MapEntriesLoop(set[i], map[i], pos)
  IN  IF r.done THEN <<>> ELSE <<r.key>> \o MapWalkFrom(i, r.pos)

RECURSIVE SetWalkFrom(_, _)
SetWalkFrom(s, pos) ==
  LET r == SetValuesLoop(s, pos)
  IN  IF r.done THEN <<>> ELSE <<r.key>> \o SetWalkFrom(r.set, r.pos)

FullWalk(i) ==
  IF kind = "map" THEN MapWalkFrom(i, 0) ELSE SetWalkFrom(set[i], 0)

\* some WeakRef in #set of instance i no longer resolves
HasStaleRef(i) == \E r \in Range(set[i]) : Deref(r) = Undefined

\* some WeakRef in #set of instance i resolves
HasLiveRef(i) == \E r \in Range(set[i]) : Deref(r) # Undefined

\* the step is the application's call of set or add on instance i with key
Insert(i, key) ==
  /\ last'.op \in {"set", "add"} /\ last'.inst = i
  /\ \/ \E value \in Values : MapSet(i, key, value)
     \/ SetAdd(i, key)

\* the step is the application's call of delete on instance i with key
Delete(i, key) ==
  /\ last'.op = "delete" /\ last'.inst = i
  /\ MapDelete(i, key) \/ SetDelete(i, key)

\* the step is the application's call of clear on instance i
Clear(i) ==
  /\ last'.op = "clear" /\ last'.inst = i
  /\ MapClear(i) \/ SetClear(i)

\* the step is the application's call of forEach on instance i
ForEach(i, callback, thisArg) ==
  /\ last'.op = "forEach" /\ last'.inst = i /\ ~InForEach
  /\ \/ MapForEach(i, callback, thisArg)
     \/ SetForEach(i, callback, thisArg)

\* the step is one turn of the loop of forEach on instance i
ForEachStep(i) ==
  /\ InForEach /\ walk.inst = i /\ last'.op \in {"forEach", "callback"}
  /\ MapForEachStep(i) \/ SetForEachStep(i)

\* the keys of the live entries of instance i that #set lists after its
\* first `pos` elements, in the order of #set
LiveAfter(i, pos) ==
  LET rest == SubSeq(set[i], pos + 1, Len(set[i]))
      live == SelectSeq(rest, LAMBDA r : Deref(r) # Undefined)
  IN  [j \in 1..Len(live) |-> Deref(live[j])]

\* the step is the host's call of the finalizer with a cell
Fire(cell) ==
  /\ last'.op = "finalizer"
  /\ MapFire(cell) \/ SetFire(cell)

\* ------------------------------------------------------------------------
\* Claims
\* ------------------------------------------------------------------------

\* C1: in every reachable state (between any two steps, the yields of a walk
\* included) #map and #set agree on the live entries: every WeakRef in #set
\* that resolves yields a key of #map whose payload holds that very WeakRef,
\* and the WeakRef of every live key of #map is in #set.
C1_IndexRegistryAgree ==
  \A i \in insts :
    /\ \A r \in Range(set[i]) :
         Deref(r) # Undefined =>
           /\ Deref(r) \in DOMAIN map[i]
           /\ map[i][Deref(r)].k = r
    /\ \A o \in DOMAIN map[i] :
         objState[o] # "reclaimed" => map[i][o].k \in Range(set[i])

\* a walk has just yielded an entry while #set holds a live and a stale
\* WeakRef
C1_Witness ==
  /\ last.op = "next" /\ last.ret = "yield"
  /\ HasStaleRef(last.inst) /\ HasLiveRef(last.inst)

\* C2: right after set(k, v) or add(k) returned, has(k) is true and, for the
\* map, get(k) returns v.
C2_PresentAfterInsert ==
  (last.op \in {"set", "add"} /\ last.ret = "this") =>
    /\ Has(last.inst, last.key)
    /\ (last.op = "set" => MapGetResult(last.inst, last.key) = last.value)

\* set(k, v2) has just returned on a map that also holds a stale WeakRef
C2_Witness ==
  /\ last.op = "set" /\ last.ret = "this" /\ last.value = ValNames[2]
  /\ HasStaleRef(last.inst)

\* C3: set(k, v) on a key that the map has leaves size unchanged and makes
\* get(k) return v; add(k) on a value that the set has leaves size unchanged.
C3_OverwriteKeepsSize ==
  [][\A i \in insts, k \in Objects :
       /\ \A v \in Values :
            (MapSet(i, k, v) /\ MapHasResult(i, k) = "true") =>
              /\ SizeResult(i)' = SizeResult(i)
              /\ MapGetResult(i, k)' = v
       /\ (SetAdd(i, k) /\ SetHasResult(i, k) = "true") =>
            SizeResult(i)' = SizeResult(i)]_vars

\* set(k, v) has just returned for a key whose WeakRef is not the newest of
\* #set: the key was in the map before the call
C3_Witness ==
  /\ last.op = "set" /\ last.ret = "this"
  /\ \E j \in 1..(Len(set[last.inst]) - 1) :
       Deref(set[last.inst][j]) = last.key

Empty(i) ==
  /\ SizeResult(i) = 0
  /\ \A o \in Objects : ~Has(i, o)
  /\ FullWalk(i) = <<>>

\* C5: after clear() the container is empty (size 0, has false for every
\* object, a walk yields nothing), and stays so until the next set/add.
C5_ClearEmpties ==
  [][\A i \in insts :
       /\ Clear(i) => Empty(i)'
       /\ (Empty(i) /\ ~Empty(i)') => \E k \in Objects : Insert(i, k)]_vars

\* clear() has just returned on a map that had held the WeakRef of a
\* reclaimed key (its finalizer has not run yet) and on a walk in progress
C5_Witness ==
  /\ last.op = "clear" /\ kind = "map" /\ walk.active
  /\ \E c \in DOMAIN registry :
       c.inst = last.inst /\ objState[c.target] = "reclaimed"

\* C6: set and add called with a key that cannot be held weakly (a string, a
\* number, a boolean, null, undefined) throw a TypeError and leave #map,
\* #set, the registry and size as they were.
C6_InvalidKeyRejected ==
  [][\A i \in insts, key \in Primitives :
       Insert(i, key) =>
         /\ last'.ret = "TypeError"
         /\ UNCHANGED <<map, set, registry>>
         /\ SizeResult(i)' = SizeResult(i)]_vars

\* set or add has just thrown on a container that holds an entry
C6_Witness ==
  /\ last.op \in {"set", "add"} /\ last.ret = "TypeError"
  /\ HasLiveRef(last.inst)

\* C7: get, has and delete called with a key that cannot be held weakly
\* never throw: get returns undefined, has returns false, delete returns
\* false, and the container is unchanged.
C7_LookupsNeverRaise ==
  /\ [](\A i \in insts, key \in Primitives :
         IF kind = "map"
           THEN MapGetResult(i, key) = Undefined /\ MapHasResult(i, key) = "false"
           ELSE SetHasResult(i, key) = "false")
  /\ [][\A i \in insts, key \in Primitives :
         Delete(i, key) =>
           (last'.ret = "false" /\ UNCHANGED <<map, set, registry>>)]_vars

\* object o has left every container: has(o) is false, no walk yields it
\* and size counts the other objects only
Gone(o) ==
  \A i \in insts :
    /\ ~Has(i, o)
    /\ \A j \in 1..Len(FullWalk(i)) : FullWalk(i)[j] # o
    /\ SizeResult(i) = Cardinality({k \in Objects \ {o} : Has(i, k)})

\* C8: once the host has reclaimed an object, has is false for it, no walk
\* yields it and size does not count it; and an object of a container that
\* the application dropped is eventually reclaimed, and then gone, unless a
\* walk hands it back to the application first.
C8_ReclaimedLeaves ==
  /\ [](\A o \in Objects : objState[o] = "reclaimed" => Gone(o))
  /\ \A o \in Objects :
       (objState[o] = "dropped" /\ \E i \in insts : Has(i, o))
         ~> (objState[o] = "held" \/ (objState[o] = "reclaimed" /\ Gone(o)))

\* an object was reclaimed while its WeakRef is still in #set, next to a
\* live entry
C8_Witness ==
  \E i \in insts :
    /\ \E r \in Range(set[i]) : objState[r.target] = "reclaimed"
    /\ HasLiveRef(i)

\* C9: every entry that a walk yields is live and present at the moment of
\* the yield: its key is an object, not the empty resolution of a stale
\* WeakRef, has(key) is true and, for the map, the value is that of get(key).
C9_YieldsLiveEntry ==
  (last.op = "next" /\ last.ret = "yield") =>
    /\ last.key \in Objects
    /\ objState[last.key] # "reclaimed"
    /\ Has(last.inst, last.key)
    /\ (kind = "map" => last.value = MapGetResult(last.inst, last.key))

\* a walk of the map has just yielded after it passed a stale WeakRef
C9_Witness ==
  /\ kind = "map" /\ last.op = "next" /\ last.ret = "yield"
  /\ \E j \in 1..(walk.pos - 1) : Deref(set[last.inst][j]) = Undefined

\* C10: when the finalizer is called with a cell whose WeakRef still
\* resolves it changes nothing; when the WeakRef is empty (the object was
\* reclaimed) it removes the WeakRef from #set and the entry from #map.
C10_FinalizerRemovesReclaimed ==
  [][\A cell \in DOMAIN registry :
       Fire(cell) =>
         IF Deref(cell.ref) # Undefined
           THEN UNCHANGED <<map, set>>
           ELSE /\ cell.ref \notin Range(set'[cell.inst])
                /\ cell.target \notin DOMAIN map'[cell.inst]]_vars

\* C11: a call of the finalizer never throws, whatever the application did
\* since the registration (delete, clear, delete and set again): it returns
\* normally, and when the entry of its cell is no longer in #set it changes
\* neither #map nor #set.
C11_FinalizerNeverThrows ==
  [][\A cell \in DOMAIN registry :
       Fire(cell) =>
         /\ last'.ret = Undefined
         /\ cell.ref \notin Range(set[cell.inst]) => UNCHANGED <<map, set>>]_vars

\* the finalizer of a key that was reclaimed has just returned on a map that
\* the application had cleared and then filled again
C11_Witness ==
  /\ kind = "map" /\ last.op = "finalizer" /\ last.ret = Undefined
  /\ HasLiveRef(last.inst) /\ ~HasStaleRef(last.inst)

C13_ForEachRejectsNonFunction ==
  [][\A i \in insts, callback \in Callbacks \ {"function"},
        thisArg \in ThisArgs :
       ForEach(i, callback, thisArg) =>
         /\ last'.ret = "TypeError"
         /\ UNCHANGED <<map, set, registry, walk, objState>>]_vars

\* forEach has just thrown on a container that holds a live entry and a
\* stale WeakRef
C13_Witness ==
  /\ last.op = "forEach" /\ last.ret = "TypeError"
  /\ HasLiveRef(last.inst) /\ HasStaleRef(last.inst)

\* C14: forEach enters its loop at the head of #set, and every turn of the
\* loop calls the callback for the next live entry in the order of #set, with
\* thisArg as receiver and the arguments (value, key, container), for the set
\* (value, value, container), and leaves the live entries behind it still to
\* visit; it returns when no live entry is left.  With no reclamation and no
\* mutation during the call, that is one call per live entry, in order.
C14_ForEachCallsEachOnce ==
  [][\A i \in insts :
       /\ \A thisArg \in ThisArgs :
            ForEach(i, "function", thisArg) =>
              /\ InForEach' /\ walk'.inst = i /\ walk'.thisArg = thisArg
              /\ LiveAfter(i, walk'.pos) = LiveAfter(i, 0)
       /\ ForEachStep(i) =>
            LET rest == LiveAfter(i, walk.pos)
            IN  IF rest = <<>>
                  THEN last'.op = "forEach" /\ last'.ret = Undefined
                       /\ ~walk'.active
                  ELSE /\ last'.op = "callback"
                       /\ last'.this = walk.thisArg
                       /\ last'.args =
                            IF kind = "map"
                              THEN <<MapGetResult(i, rest[1]), rest[1], i>>
                              ELSE <<rest[1], rest[1], i>>
                       /\ InForEach'
                       /\ LiveAfter(i, walk.pos)' = Tail(rest)]_vars

\* forEach has just called the callback for the second of two live entries
C14_Witness ==
  /\ last.op = "callback" /\ last.this = "thisArg"
  /\ walk.pos = 2 /\ ~HasStaleRef(last.inst)

\* the step is one step of the walk of instance i: a next() of the iterator
\* or a turn of the loop of forEach
WalkStep(i) ==
  /\ walk.active /\ walk.inst = i
  /\ last'.op \in {"next", "forEach", "callback"}
  /\ \/ MapEntriesNext(i) \/ SetValuesNext(i)
     \/ MapForEachStep(i) \/ SetForEachStep(i)

\* the step starts a walk: entries(), values() or forEach is called
WalkStart ==
  /\ last'.op \in {"entries", "values", "forEach"}
  /\ walk'.active /\ walk'.pos = 0

\* the number of elements of #set that the walk in progress has yet to pass
Rank == Len(set[walk.inst]) - walk.pos

\* C15 as claimed: a forEach whose callback calls set/add/delete on the
\* container returns, whatever the callback and the host do in between.
C15_EveryWalkEnds == InForEach ~> ~InForEach

\* C15, amended: every step of a walk ends the walk or leaves fewer elements
\* of #set to pass, and between the steps only set/add of a key that the
\* container does not hold leaves more of them: a walk ends unless such
\* insertions go on for ever.
C15_WalkEndsUnlessFed ==
  [][\A i \in insts :
       (walk.active /\ walk.inst = i) =>
         /\ WalkStep(i) => (~walk'.active \/ Rank' < Rank)
         /\ (walk'.active /\ ~WalkStart /\ Rank' > Rank) =>
              \E k \in Objects : Insert(i, k) /\ ~Has(i, k)]_vars

\* the callback of a forEach that has visited an entry has just called set,
\* and an entry is left to visit
C15_Witness ==
  /\ InForEach /\ last.op \in {"set", "add"} /\ last.ret = "this"
  /\ walk.pos >= 1 /\ Rank >= 1

\* C16: for a walk by keys(), values() or entries() during which the host
\* may reclaim and the application calls no set, add, delete or clear: every
\* key yielded was live and in the container when the walk started, no key
\* is yielded twice, and when the walk has ended every key of the start that
\* is still live was yielded.
C16_WalkYieldsSubsetOfStart ==
  hist.clean =>
    /\ \A j \in 1..Len(hist.seen) : hist.seen[j] \in hist.start
    /\ \A j, k \in 1..Len(hist.seen) :
         hist.seen[j] = hist.seen[k] => j = k
    /\ ~walk.active =>
         \A o \in hist.start :
           objState[o] # "reclaimed" => o \in Range(hist.seen)

\* a walk has just ended that yielded a key and missed another, which the
\* host reclaimed after the walk had started
C16_Witness ==
  /\ hist.clean /\ last.op = "next" /\ last.ret = "done"
  /\ hist.seen # <<>>
  /\ \E o \in hist.start : o \notin Range(hist.seen)

\* C17: in every reachable state, size, the length of a full walk and the
\* number of distinct objects for which has is true are the same number,
\* all three observed in that one state (so with no reclamation in between).
C17_SizeMatchesWalkAndHas ==
  \A i \in insts :
    /\ SizeResult(i) = Len(FullWalk(i))
    /\ SizeResult(i) = Cardinality({k \in Objects : Has(i, k)})

\* the three agree on 1 while #set holds two WeakRefs: one of an object
\* that was reclaimed, one of an object dropped and not yet reclaimed
C17_Witness ==
  \E i \in insts :
    /\ Len(set[i]) = 2 /\ SizeResult(i) = 1
    /\ \E o \in Objects : objState[o] = "dropped" /\ Has(i, o)

\* the keys that keySelector returns for the items of a call of groupBy
SelectedKeys(call) ==
  {call.keySelector.f[call.items.seq[j]] : j \in 1..Len(call.items.seq)}

\* the items of a call of groupBy that select key, in their original order
ItemsOf(call, key) ==
  SelectSeq(call.items.seq, LAMBDA x : call.keySelector.f[x] = key)

\* C18: groupBy(items, keySelector), for an array of items and a selector
\* that returns objects, returns a map with exactly one entry per distinct
\* selected key, whose value is the array of the items that selected the key
\* in their original order; keySelector was called once per item with
\* (item, index), index counting from 0; get of any other key is absent.
C18_GroupByGroups ==
  (/\ last.op = "groupBy"
   /\ last.items.iterable /\ last.keySelector.callable
   /\ SelectedKeys(last) \subseteq Objects)
    => /\ last.ret = "map" /\ insts = {1}
       /\ SizeResult(1) = Cardinality(SelectedKeys(last))
       /\ Len(FullWalk(1)) = Cardinality(SelectedKeys(last))
       /\ Range(FullWalk(1)) = SelectedKeys(last)
       /\ \A k \in SelectedKeys(last) :
            Has(1, k) /\ MapGetResult(1, k) = ItemsOf(last, k)
       /\ \A k \in Objects \ SelectedKeys(last) :
            ~Has(1, k) /\ MapGetResult(1, k) = Undefined
       /\ Len(last.calls) = Len(last.items.seq)
       /\ \A j \in 1..Len(last.calls) :
            last.calls[j] = <<last.items.seq[j], j - 1>>

\* groupBy returned a map of two entries: the first and the third item
\* selected one key, the second item the other
C18_Witness ==
  /\ last.op = "groupBy" /\ last.ret = "map"
  /\ Len(last.items.seq) = 3
  /\ \E k1, k2 \in Objects :
       /\ k1 # k2 /\ Has(1, k1) /\ Has(1, k2)
       /\ MapGetResult(1, k1) = <<last.items.seq[1], last.items.seq[3]>>
       /\ MapGetResult(1, k2) = <<last.items.seq[2]>>

\* C19: groupBy fails with a TypeError whenever items is not iterable, and
\* whenever keySelector cannot be called, however many elements items has.
C19_GroupByRejectsBadArguments ==
  (/\ last.op = "groupBy"
   /\ ~last.items.iterable \/ ~last.keySelector.callable)
    => last.ret = "TypeError"

\* the objects for which has of instance i is true
MembersOf(i) == {k \in Objects : Has(i, k)}

\* the members of an operand `other`: those of the IterableWeakSet, the
\* values of the Set, the keys of the Map
LikeMembers(other) ==
  IF other.type = "IterableWeakSet" THEN MembersOf(other.inst)
  ELSE Range(other.seq)

\* the call of the set algebra recorded in `call` returned a container
\* whose members are exactly `members`: by has, by a full walk, which
\* yields each member once, and by size
Returned(call, members) ==
  /\ call.ret = "set"
  /\ {k \in Objects : Deref(WeakMapGet(call.result.map, k).k) = k} = members
  /\ Range(SetWalkFrom(call.result.set, 0)) = members
  /\ Len(SetWalkFrom(call.result.set, 0)) = Cardinality(members)
  /\ SetSizeLoop(call.result.set, 0, 0).n = Cardinality(members)

\* C20: for `other` an IterableWeakSet, a native Set or a Map (its keys),
\* and with no reclamation during the call, union returns a new set whose
\* members are exactly the members of either operand, intersection the
\* members of this that other has, difference the members of this that
\* other lacks, and symmetricDifference the members of exactly one operand.
C20_AlgebraIsSetAlgebra ==
  [][last'.op \in AlgebraOps =>
       LET i == last'.inst
           other == last'.other
           A == MembersOf(i)
           B == LikeMembers(other)
       IN  /\ SetUnion(i, other) => Returned(last', A \cup B)
           /\ SetIntersection(i, other) => Returned(last', A \cap B)
           /\ SetDifference(i, other) => Returned(last', A \ B)
           /\ SetSymmetricDifference(i, other)
                => Returned(last', (A \ B) \cup (B \ A))]_vars

\* symmetricDifference with a Map that has keys returned a set with a
\* member that the application had dropped, and a member from the Map
C20_Witness ==
  /\ last.op = "symmetricDifference" /\ last.ret = "set"
  /\ last.other.type = "Map"
  /\ \E o \in Objects \ Range(last.other.seq) :
       /\ objState[o] = "dropped"
       /\ Deref(WeakMapGet(last.result.map, o).k) = o
  /\ \E o \in Range(last.other.seq) :
       Deref(WeakMapGet(last.result.map, o).k) = o

\* what a predicate of the set algebra returns for a condition that holds
Bool(b) == IF b THEN "true" ELSE "false"

AlgebraStep(i, other) ==
  \/ last'.op = "union" /\ SetUnion(i, other)
  \/ last'.op = "intersection" /\ SetIntersection(i, other)
  \/ last'.op = "difference" /\ SetDifference(i, other)
  \/ last'.op = "symmetricDifference" /\ SetSymmetricDifference(i, other)
  \/ last'.op = "isSubsetOf" /\ SetIsSubsetOf(i, other)
  \/ last'.op = "isSupersetOf" /\ SetIsSupersetOf(i, other)
  \/ last'.op = "isDisjointFrom" /\ SetIsDisjointFrom(i, other)

\* what the application can observe of an IterableWeakSet whose #map is m
\* and whose #set is s: the objects for which has is true, what size
\* returns, and what a full walk yields
SetView(m, s) ==
  [has |-> {k \in Objects : Deref(WeakMapGet(m, k).k) = k},
   size |-> SetSizeLoop(s, 0, 0).n,
   walk |-> SetWalkFrom(s, 0)]

\* C22: none of union, intersection, difference, symmetricDifference,
\* isSubsetOf, isSupersetOf, isDisjointFrom changes an operand: for every
\* container of the application, this and other included, has of every
\* object, size and the contents of a full walk are after the call what they
\* were before; and the container that a call returns is a new one, which
\* shares no WeakRef with a container of the application.
C22_AlgebraLeavesOperands ==
  [][last'.op \in AlgebraOps \cup AlgebraPreds =>
       (AlgebraStep(last'.inst, last'.other) =>
          \A j \in insts :
            \A m2 \in {map'[j]}, s2 \in {set'[j]}, res \in {last'.result} :
              /\ SetView(m2, s2) = SetView(map[j], set[j])
              /\ Range(res.set) \cap Range(s2) = {}
              /\ \A o \in DOMAIN res.map : res.map[o].k \notin Range(s2))]_vars

\* union with another IterableWeakSet returned a container with members,
\* and its walk of this evicted from #set the WeakRef of a reclaimed object
C22_Witness ==
  /\ last.op = "union" /\ last.other.type = "IterableWeakSet"
  /\ last.other.inst # last.inst
  /\ last.result.set # <<>>
  /\ \E cell \in DOMAIN registry :
       /\ cell.inst = last.inst
       /\ objState[cell.target] = "reclaimed"
       /\ cell.ref \notin Range(set[last.inst])

\* C23: for IterableWeakSets A and B, with no reclamation during the calls,
\* the size of A.union(B) is the size of A plus the size of B minus the size
\* of A.intersection(B).
C23_UnionSize ==
  last.op = "unionSizes" =>
    last.obs.union = last.obs.a + last.obs.b - last.obs.intersection

\* the sizes were taken of two different containers that share a member,
\* one of which has a member more
C23_Witness ==
  /\ last.op = "unionSizes" /\ last.other.inst # last.inst
  /\ last.obs.intersection >= 1
  /\ last.obs.a > last.obs.intersection
  /\ last.obs.union = last.obs.a

\* C24: for IterableWeakSets A and B, with no reclamation during the calls,
\* A.difference(B) and B.difference(A) are disjoint, and the union of the
\* two has the same members as A.symmetricDifference(B).
C24_DifferencesMakeSymmetricDifference ==
  last.op = "differences" =>
    /\ last.obs.disjoint = "true"
    /\ last.obs.d1 \cap last.obs.d2 = {}
    /\ last.obs.union = last.obs.symmetricDifference

\* the two differences were taken of containers that share a member, and
\* one of them is not empty
C24_Witness ==
  /\ last.op = "differences" /\ last.other.inst # last.inst
  /\ last.obs.a \cap last.obs.b # {}
  /\ last.obs.d1 \cup last.obs.d2 # {}
  /\ last.obs.union # {}

\* C25: for IterableWeakSets A and B, with no reclamation during the calls,
\* A.isSubsetOf(B) returns what B.isSupersetOf(A) returns, and when
\* A.isSubsetOf(B) and A.isSupersetOf(B) are both true, A and B have the
\* same live members.
C25_SubsetIsInverseSuperset ==
  last.op = "predicates" =>
    /\ last.obs.subset = last.obs.inverse
    /\ (last.obs.subset = "true" /\ last.obs.superset = "true")
         => last.obs.a = last.obs.b

\* two different containers with the same member, one of which also holds
\* the WeakRef of a reclaimed object, were found subset and superset of
\* each other
C25_Witness ==
  /\ last.op = "predicates" /\ last.other.inst # last.inst
  /\ last.obs.subset = "true" /\ last.obs.superset = "true"
  /\ last.obs.a # {}
  /\ \E cell \in DOMAIN registry : objState[cell.target] = "reclaimed"

C27_AlgebraRejectsNonSetLike ==
  [][(/\ last'.op \in AlgebraOps \cup AlgebraPreds
      /\ last'.other.type \in {"object", "sizeless"}
      /\ AlgebraStep(last'.inst, last'.other))
       => /\ last'.ret = "TypeError"
          /\ \A m2 \in {map'[last'.inst]}, s2 \in {set'[last'.inst]} :
               SetView(m2, s2)
                 = SetView(map[last'.inst], set[last'.inst])]_vars

\* C28: get and has accept a WeakRef of a key in place of the key: for a
\* WeakRef whose target is a live key of the map, get returns the value of
\* the key and has returns true.
C28_LookupsAcceptWeakRef ==
  kind = "map" =>
    \A i \in insts, o \in Objects :
      MapHasResult(i, o) = "true" =>
        /\ MapGetResult(i, WeakRefOf(o)) = MapGetResult(i, o)
        /\ MapHasResult(i, WeakRefOf(o)) = "true"

\* what the application observes of instance i: has, size, the keys of a
\* complete walk in order and, of the map, what get returns for each object
Observed(i) ==
  [has |-> {o \in Objects : Has(i, o)},
   size |-> SizeResult(i),
   walk |-> FullWalk(i),
   get |-> [o \in Objects |->
              IF kind = "map" THEN MapGetResult(i, o) ELSE Undefined]]

\* the keys that the array q of the constructor lists
Listed(q) == {IF kind = "map" THEN q[j][1] ELSE q[j] : j \in 1..Len(q)}

\* the value of the last entry of q that lists key o
LastListed(q, o) ==
  LET at == {j \in 1..Len(q) : q[j][1] = o}
  IN  q[CHOOSE j \in at : \A k \in at : k <= j][2]

\* C29: a container built with no argument or with null is empty; a
\* container built from an array of entries is in the same observable state
\* as a container built with no argument on which set or add was called once
\* per entry in the order of the array, so a key listed twice appears once
\* and, in the map, carries the value listed last.
C29_ConstructorIsSetOrAddPerEntry ==
  last.op = "new" =>
    LET q == OrEmpty(last.arg)
    IN  /\ last.arg.arg \in {"undefined", "null"} =>
             /\ Observed(1).has = {} /\ Observed(1).size = 0
             /\ Observed(1).walk = <<>>
        /\ last.done = Len(q) => Observed(1) = Observed(2)
        /\ Observed(1).has = Listed(q)
        /\ Len(Observed(1).walk) = Cardinality(Listed(q))
        /\ kind = "map" =>
             \A o \in Listed(q) : MapGetResult(1, o) = LastListed(q, o)

\* the array listed a key twice, with two values in the map, and the
\* application has passed every entry to set or add of the second container
C29_Witness ==
  /\ last.op = "new" /\ last.arg.arg = "iterable"
  /\ last.done = Len(last.arg.seq) /\ Len(last.arg.seq) = MaxItems
  /\ Cardinality(Listed(last.arg.seq)) = 2 /\ SizeResult(1) = 2
  /\ kind = "map"
  /\ \E j, k \in 1..Len(last.arg.seq) :
       /\ j < k /\ last.arg.seq[j][1] = last.arg.seq[k][1]
       /\ last.arg.seq[j][2] # last.arg.seq[k][2]

\* the registry reg holds a registration that instance i made for object k
Armed(reg, i, k) == \E c \in DOMAIN reg : c.inst = i /\ c.target = k

\* the three removals for the WeakRef r of instance i, whose #map is m2 and
\* whose #set is s2 once the call returned, the registry being reg2: the
\* target of r is no key of #map, r is not in #set, and the registry holds no
\* registration of the instance for the target
Removed(m2, s2, reg2, i, r) ==
  /\ r.target \notin DOMAIN m2
  /\ r \notin Range(s2)
  /\ ~Armed(reg2, i, r.target)

\* the step is a call of delete, which returns true exactly when #map had an
\* entry for k, and a true result leaves k, its WeakRef and its
\* registrations removed; and a registration of a container for an object
\* appears by set or add of that object alone
DeleteTearsDown ==
  /\ last'.op = "delete" =>
       \A k \in Keys :
         Delete(last'.inst, k) =>
           \A m \in {map[last'.inst]}, m2 \in {map'[last'.inst]},
              s2 \in {set'[last'.inst]}, reg2 \in {registry'} :
             /\ (last'.ret = "true") <=> (k \in DOMAIN m)
             /\ last'.ret = "true" =>
                  /\ Removed(m2, s2, reg2, last'.inst, m[k].k)
                  /\ \A r \in Range(s2) : r.target # k
  /\ \A i \in insts, k \in Objects, reg2 \in {registry'} :
       (~Armed(registry, i, k) /\ Armed(reg2, i, k)) => Insert(i, k)

\* C30: delete(k) returns true exactly when an entry for k existed, and
\* after a true result k is no key of #map, its WeakRef is not in #set and
\* the registry holds no registration of this container for k, so that no
\* finalizer is called for it later; clear() makes the same three removals
\* for every WeakRef of #set and leaves #set empty.
C30_DeleteAndClearTearDown ==
  [][/\ DeleteTearsDown
     /\ (last'.op = "clear" /\ Clear(last'.inst)) =>
          \A m2 \in {map'[last'.inst]}, s2 \in {set'[last'.inst]},
             reg2 \in {registry'} :
            /\ s2 = <<>>
            /\ \A r \in Range(set[last'.inst]) :
                 Removed(m2, s2, reg2, last'.inst, r)]_vars

\* C30 as amended: clear() makes the three removals for every WeakRef of
\* #set that still resolves and leaves #set empty; of a WeakRef that no
\* longer resolves it removes the WeakRef and leaves the registration.
C30_ClearTearsDownResolving ==
  [][/\ DeleteTearsDown
     /\ (last'.op = "clear" /\ Clear(last'.inst)) =>
          \A m2 \in {map'[last'.inst]}, s2 \in {set'[last'.inst]},
             reg2 \in {registry'} :
            /\ s2 = <<>>
            /\ \A r \in Range(set[last'.inst]) :
                 IF Deref(r) # Undefined
                   THEN Removed(m2, s2, reg2, last'.inst, r)
                   ELSE /\ r.target \notin DOMAIN m2
                        /\ Armed(reg2, last'.inst, r.target)
                             = Armed(registry, last'.inst, r.target)]_vars

\* clear() has just returned on a set that kept a member, while the
\* registry still holds the registration that the set made for an object
\* reclaimed since
C30_Witness ==
  /\ last.op = "clear" /\ kind = "set" /\ ~walk.active
  /\ \E o \in Objects :
       objState[o] = "reclaimed" /\ Armed(registry, last.inst, o)
  /\ \E o \in Objects :
       objState[o] = "held" /\ ~Armed(registry, last.inst, o)

\* the number of registrations among `cells` of the registry reg
RECURSIVE CountOf(_, _)
CountOf(reg, cells) ==
  IF cells = {} THEN 0
  ELSE LET c == CHOOSE d \in cells : TRUE
       IN  reg[c] + CountOf(reg, cells \ {c})

\* the number of registrations that instance i holds in reg for object o
Registrations(reg, i, o) ==
  CountOf(reg, {c \in DOMAIN reg : c.inst = i /\ c.target = o})

\* C31: in every state reached by calls of set or add, delete and clear on
\* one container, the registry holds exactly one registration of the
\* container for every object not reclaimed that is a key of #map, and none
\* for every other object not reclaimed; set or add of a key that #map has
\* adds no registration.
C31_OneRegistrationPerEntry ==
  \A i \in insts, o \in Objects :
    objState[o] # "reclaimed" =>
      Registrations(registry, i, o) = IF o \in DOMAIN map[i] THEN 1 ELSE 0

\* C32: in every reachable state no two WeakRefs of one #set resolve to the
\* same object, also after delete and a new set or add of the object, and
\* the WeakRef stored in #map for a key is a WeakRef of that key.
C32_OneWeakRefPerObject ==
  \A i \in insts :
    /\ \A j, k \in 1..Len(set[i]) :
         (Deref(set[i][j]) # Undefined
            /\ Deref(set[i][j]) = Deref(set[i][k])) => j = k
    /\ \A o \in DOMAIN map[i] : map[i][o].k.target = o

\* add has just returned for a value that the set had, next to another
\* member
C32_Witness ==
  /\ kind = "set" /\ last.op = "add" /\ last.ret = "this"
  /\ Registrations(registry, last.inst, last.key) >= 2
  /\ Len(set[last.inst]) = 2
  /\ \A j \in 1..2 : Deref(set[last.inst][j]) # Undefined

\* C33: set(k, v) of the map for a key that #map has and that is not
\* reclaimed changes the value of the payload of k and nothing else: the
\* WeakRef of the payload, #set with its order, the registry and the entries
\* of every other key are as before.
C33_SetOverwritesPayloadOnly ==
  [][(kind = "map" /\ last'.op = "set") =>
       \A k \in Objects, v \in Values :
         (k \in DOMAIN map[last'.inst] /\ MapSet(last'.inst, k, v)) =>
           /\ set' = set
           /\ registry' = registry
           /\ \A m2 \in {map'} :
                /\ DOMAIN m2[last'.inst] = DOMAIN map[last'.inst]
                /\ m2[last'.inst][k] = [k |-> map[last'.inst][k].k, v |-> v]
                /\ \A o \in DOMAIN map[last'.inst] \ {k} :
                     m2[last'.inst][o] = map[last'.inst][o]
                /\ \A j \in Insts \ {last'.inst} : m2[j] = map[j]]_vars

\* set(k, v) has just returned for the oldest key of a map that holds a
\* younger entry as well, and the value is not the one of that entry
C33_Witness ==
  /\ kind = "map" /\ last.op = "set" /\ last.ret = "this"
  /\ Len(set[last.inst]) = 2
  /\ set[last.inst][1].target = last.key
  /\ Deref(set[last.inst][2]) # Undefined
  /\ Registrations(registry, last.inst, last.key) = 1
  /\ map[last.inst][Deref(set[last.inst][2])].v # last.value

\* #set after a walk of IterableWeakSet.prototype.values run to its end with
\* no other step in between, from an iterator that has passed `pos` elements
RECURSIVE SetWalkEnd(_, _)
SetWalkEnd(s, pos) ==
  LET r == SetValuesLoop(s, pos)
  IN  IF r.done THEN r.set ELSE SetWalkEnd(r.set, r.pos)

\* #set of instance i after a complete walk by keys, values, entries or
\* forEach: the generator of the map calls no method of #set
AfterWalk(i) == IF kind = "map" THEN set[i] ELSE SetWalkEnd(set[i], 0)

\* #set of instance i after a read of size: the getter of the map calls no
\* method of #set
AfterSize(i) ==
  IF kind = "map" THEN set[i] ELSE SetSizeLoop(set[i], 0, 0).set

\* the WeakRefs of s that resolve, in the order of s
Resolving(s) == SelectSeq(s, LAMBDA r : Deref(r) # Undefined)

ReclaimOrFire(x) ==
  \/ objState[x] = "dropped" /\ Reclaim(x)
  \/ \E cell \in DOMAIN registry : cell.target = x /\ Fire(cell)

\* the WeakRefs of s to objects other than x, in the order of s
Others(s, x) == SelectSeq(s, LAMBDA r : r.target # x)

\* C35: the reclamation of an object x and the call of the finalizer for x
\* leave the entry of every other object not reclaimed as it was, in every
\* instance: has and get return the same, #map stores the same payload with
\* the same WeakRef, and the WeakRefs of the other objects are the same
\* members of #set in the same order.
C35_ReclaimTouchesOneEntry ==
  [][\A x \in Objects :
       ReclaimOrFire(x) =>
         \A i \in insts : \A m2 \in {map'[i]}, s2 \in {set'[i]} :
           /\ Others(s2, x) = Others(set[i], x)
           /\ \A k \in Objects \ {x} :
                objState[k] # "reclaimed" =>
                  /\ objState'[k] = objState[k]
                  /\ (k \in DOMAIN m2) <=> (k \in DOMAIN map[i])
                  /\ k \in DOMAIN m2 => m2[k] = map[i][k]
                  /\ Has(i, k)' = Has(i, k)
                  /\ kind = "map" =>
                       MapGetResult(i, k)' = MapGetResult(i, k)]_vars

\* the finalizer of a reclaimed key has just returned on a map that holds
\* the entry of another key, which the application still holds
C35_Witness ==
  /\ kind = "map" /\ last.op = "finalizer"
  /\ HasStaleRef(last.inst)
  /\ \E k \in Objects :
       objState[k] = "held" /\ MapHasResult(last.inst, k) = "true"

\* the step is a call of delete or clear on instance a, or the host's call
\* of the finalizer with a cell that instance a registered
ActsOn(a) ==
  \/ \E k \in Objects : Delete(a, k)
  \/ Clear(a)
  \/ \E cell \in DOMAIN registry : cell.inst = a /\ Fire(cell)

\* C36: with two instances of one class, which share the registry of the
\* class, delete(k) and clear() on one instance, and a call of the finalizer
\* for an entry of that instance, leave the other instance as it was: its
\* #map, its #set and the registrations it holds, the one for k included.
C36_SharedRegistryKeepsInstancesApart ==
  [][\A a \in insts :
       (last'.inst = a /\ last'.op \in {"delete", "clear", "finalizer"}
          /\ ActsOn(a)) =>
         \A b \in insts \ {a} :
           /\ map'[b] = map[b]
           /\ set'[b] = set[b]
           /\ \A reg2 \in {registry'}, k \in Objects :
                Registrations(reg2, b, k) = Registrations(registry, b, k)]_vars

\* C37: a walk by forEach, or by for-of, whose body deletes entries of the
\* container it walks and inserts none does not visit an entry that was
\* deleted before the walk reached it, visits every other entry that was
\* live at the start once, and finds #map and #set in agreement at every
\* call of the body and at its end.
C37_WalkSurvivesDeletes ==
  last.op = "walk" =>
    /\ Range(last.obs.visited) = last.obs.start \ last.obs.gone
    /\ \A j, k \in 1..Len(last.obs.visited) :
         last.obs.visited[j] = last.obs.visited[k] => j = k
    /\ last.obs.agree

\* the body deleted an entry that the walk had not reached and, at another
\* turn, an entry that the walk had visited
C37_Witness ==
  /\ last.op = "walk"
  /\ last.obs.gone # {}
  /\ Len(last.obs.visited) >= 1
  /\ \E k \in Range(last.obs.visited) : ~Has(last.inst, k)

\* ------------------------------------------------------------------------
\* C38: order of iteration, order of the set that union returns
\* ------------------------------------------------------------------------

\* the keys that `[...this]` yields from the structures m and s
Yields(m, s) == WalkKeys([map |-> m, set |-> s, pos |-> 0])

\* the keys of an operand `other` in the order that `other.keys()` yields
LikeKeys(other) ==
  IF other.type = "IterableWeakSet"
    THEN Yields(map[other.inst], set[other.inst])
    ELSE other.seq

\* the members of the sequence q that the set S has, in the order of q
Among(q, S) == SelectSeq(q, LAMBDA k : k \in S)

\* C38: iteration yields the live entries in the order in which their
\* handles were inserted into the registry: a step keeps the order of the
\* keys that are yielded before and after it, and a key that is yielded
\* only after it is the key of that step's set or add and is yielded last;
\* and the set that union returns yields the members of this in the order
\* of this, followed by the members of other that this lacks in the order
\* of other.
C38_IterationAndUnionOrder ==
  [][/\ \A i \in insts :
          \A m2 \in {map'[i]}, s2 \in {set'[i]} :
            \/ m2 = map[i] /\ s2 = set[i]
            \/ LET before == Yields(map[i], set[i])
                   after == Yields(m2, s2)
               IN  /\ Among(after, Range(before))
                        = Among(before, Range(after))
                   /\ \A j \in 1..Len(after) :
                         after[j] \notin Range(before)
                           => /\ j = Len(after)
                              /\ last'.op \in {"set", "add"}
                              /\ last'.inst = i
                              /\ last'.key = after[j]
     /\ last'.op = "union" /\ SetUnion(last'.inst, last'.other)
          => LET mine == Yields(map[last'.inst], set[last'.inst])
                 theirs == LikeKeys(last'.other)
             IN  /\ last'.ret = "set"
                 /\ SetWalkFrom(last'.result.set, 0)
                      = mine \o Among(theirs, Objects \ Range(mine))]_vars

\* union returned a set that yields a member of this and then a member that
\* only other has, where other yields these two in the opposite order
C38_Witness ==
  /\ last.op = "union" /\ last.ret = "set"
  /\ LET q == SetWalkFrom(last.result.set, 0)
         theirs == LikeKeys(last.other)
     IN  /\ Len(q) = 2 /\ Len(theirs) = 2
         /\ theirs = <<q[2], q[1]>>
         /\ Has(last.inst, q[1]) /\ ~Has(last.inst, q[2])

\* ------------------------------------------------------------------------
\* C39: the inspection hook
\* ------------------------------------------------------------------------

\* C39: producing the diagnostic string of a container does not resolve
\* every WeakRef of its #set and leaves #map and #set unchanged, at every
\* depth; called on the class's prototype it returns the bare tag.
C39_InspectLeavesHandlesAlone ==
  [][last'.op = "inspect"
       => /\ map' = map /\ set' = set /\ registry' = registry
          /\ last'.inst # Prototype /\ set[last'.inst] # <<>>
               => last'.obs.resolved # Range(set[last'.inst])
          /\ last'.inst = Prototype
               => last'.obs.text = "tag" /\ last'.obs.style = "plain"]_vars

====================================================================
